---- MODULE Spec2Model ----
(***************************************************************************)
(* New England Jobs: the client-side search pipeline of JobsAPI            *)
(* (rate limiter, response cache, fetchFromAPI, searchAllCategories,       *)
(* withRetry) and the handleSearch handler that drives it.                 *)
(*                                                                         *)
(* Spec       one browser session: handleSearch runs searches one after    *)
(*            the other over the shared rate-limit log and session cache   *)
(*            while time passes and the browser goes on and off line.      *)
(* SpecRun    one search of a fresh session under the shipped rate limit,  *)
(*            over plans of up to two batches and every answer of the API. *)
(* SpecRetry  withRetry(fn, maxRetries) around an arbitrary async fn.      *)
(***************************************************************************)
EXTENDS Integers, Sequences, FiniteSets, TLC

\* ------------------------------------------------------------------ bounds
\* Spec runs with CONFIG.RATE_LIMIT = {maxRequests: MaxRequests, windowMs:
\* WindowMs} and CONFIG.CACHE_DURATION_MS = CacheDurationMs, in clock ticks,
\* scaled down so that a session fills the window; its clock stops at MaxTime.
MaxRequests == 2
WindowMs == 1
CacheDurationMs == 2
MaxTime == 3
\* the largest maxRetries argument SpecRetry passes to withRetry
MaxRetriesArg == 3
\* SpecAlerts keeps at most SeenLimit identifiers in the seen list, where
\* markJobsSeen keeps 1000, and runs MaxChecks checks
SeenLimit == 2
MaxChecks == 3
\* the clock of SpecSaved stops at MaxSavedTime
MaxSavedTime == 1
\* SpecFetch makes at most MaxFetches calls of JobsAPI.searchJobs
MaxFetches == 3
\* SpecOverlap starts at most MaxFlights searches
MaxFlights == 2

\* ------------------------------------------------------- program constants
concurrencyLimit == 3
\* CONFIG.RATE_LIMIT as shipped (SpecRun runs with it)
ConfigMaxRequests == 10
ConfigWindowMs == 60000
DefaultMaxRetries == 2
BackoffUnitMs == 1000

RATE_LIMITED == "RATE_LIMITED"
INVALID_KEY == "Invalid API key. Please check your RapidAPI key and try again."
NO_KEY == "API key not configured. Please add your RapidAPI key."
OFFLINE == "You appear to be offline. Please check your internet connection."
REQUEST_FAILED == "API request failed. Please try again."
FETCH_FAILED == "Failed to fetch"
BAD_JSON == "Unexpected token in JSON"

\* CONFIG.NE_STATES: the first (major) city of each state
FirstCity(stateCode) ==
    CASE stateCode = "CT" -> "Hartford"
      [] stateCode = "MA" -> "Boston"
      [] stateCode = "ME" -> "Portland"
      [] stateCode = "NH" -> "Manchester"
      [] stateCode = "RI" -> "Providence"
      [] stateCode = "VT" -> "Burlington"

NE_STATE_CODES == {"CT", "MA", "ME", "NH", "RI", "VT"}

\* Object.keys(CONFIG.NE_STATES)
NE_STATE_KEYS == <<"CT", "MA", "ME", "NH", "RI", "VT">>

\* ------------------------------------------------------------------ strings
\* A JavaScript string is the sequence of its characters; null (a missing
\* field) is Null.
Null == <<"null">>

LowerCaseLetters == <<"a", "b", "c", "d", "e", "f", "g", "h", "i", "j", "k",
    "l", "m", "n", "o", "p", "q", "r", "s", "t", "u", "v", "w", "x", "y", "z">>
UpperCaseLetters == <<"A", "B", "C", "D", "E", "F", "G", "H", "I", "J", "K",
    "L", "M", "N", "O", "P", "Q", "R", "S", "T", "U", "V", "W", "X", "Y", "Z">>

\* the position of character c in letters, 0 when it is not one of them
LetterIndex(c, letters) ==
    IF \E k \in DOMAIN letters : letters[k] = c
    THEN CHOOSE k \in DOMAIN letters : letters[k] = c
    ELSE 0

\* String.prototype.toLowerCase and toUpperCase
toLowerCase(str) ==
    [k \in DOMAIN str |->
        IF LetterIndex(str[k], UpperCaseLetters) > 0
        THEN LowerCaseLetters[LetterIndex(str[k], UpperCaseLetters)]
        ELSE str[k]]

toUpperCase(str) ==
    [k \in DOMAIN str |->
        IF LetterIndex(str[k], LowerCaseLetters) > 0
        THEN UpperCaseLetters[LetterIndex(str[k], LowerCaseLetters)]
        ELSE str[k]]

\* String.prototype.trim
RECURSIVE trimStart(_)
trimStart(str) ==
    IF str # <<>> /\ Head(str) = " " THEN trimStart(Tail(str)) ELSE str

RECURSIVE trimEnd(_)
trimEnd(str) ==
    IF str # <<>> /\ str[Len(str)] = " "
    THEN trimEnd(SubSeq(str, 1, Len(str) - 1))
    ELSE str

trim(str) == trimEnd(trimStart(str))

\* String.prototype.includes
includes(str, search) ==
    \E k \in 0..(Len(str) - Len(search)) :
        SubSeq(str, k + 1, k + Len(search)) = search

\* (value || '')
OrEmpty(value) == IF value = Null THEN <<>> ELSE value

\* a + ' ' + b
Spaced(a, b) == a \o <<" ">> \o b

\* CONFIG.NE_STATES, and the two-letter codes as JavaScript strings
NE_STATES ==
    "CT" :> [code |-> <<"C", "T">>,
           name |-> <<"C", "o", "n", "n", "e", "c", "t", "i", "c", "u", "t">>,
           cities |-> <<
               <<"H", "a", "r", "t", "f", "o", "r", "d">>,
               <<"N", "e", "w", " ", "H", "a", "v", "e", "n">>,
               <<"S", "t", "a", "m", "f", "o", "r", "d">>,
               <<"B", "r", "i", "d", "g", "e", "p", "o", "r", "t">>,
               <<"W", "a", "t", "e", "r", "b", "u", "r", "y">>>>]
    @@ "MA" :> [code |-> <<"M", "A">>,
           name |-> <<"M", "a", "s", "s", "a", "c", "h", "u", "s", "e", "t", "t", "s">>,
           cities |-> <<
               <<"B", "o", "s", "t", "o", "n">>,
               <<"C", "a", "m", "b", "r", "i", "d", "g", "e">>,
               <<"W", "o", "r", "c", "e", "s", "t", "e", "r">>,
               <<"S", "p", "r", "i", "n", "g", "f", "i", "e", "l", "d">>,
               <<"L", "o", "w", "e", "l", "l">>>>]
    @@ "ME" :> [code |-> <<"M", "E">>,
           name |-> <<"M", "a", "i", "n", "e">>,
           cities |-> <<
               <<"P", "o", "r", "t", "l", "a", "n", "d">>,
               <<"L", "e", "w", "i", "s", "t", "o", "n">>,
               <<"B", "a", "n", "g", "o", "r">>,
               <<"S", "o", "u", "t", "h", " ", "P", "o", "r", "t", "l", "a", "n", "d">>,
               <<"A", "u", "b", "u", "r", "n">>>>]
    @@ "NH" :> [code |-> <<"N", "H">>,
           name |-> <<"N", "e", "w", " ", "H", "a", "m", "p", "s", "h", "i", "r", "e">>,
           cities |-> <<
               <<"M", "a", "n", "c", "h", "e", "s", "t", "e", "r">>,
               <<"N", "a", "s", "h", "u", "a">>,
               <<"C", "o", "n", "c", "o", "r", "d">>,
               <<"D", "o", "v", "e", "r">>,
               <<"R", "o", "c", "h", "e", "s", "t", "e", "r">>>>]
    @@ "RI" :> [code |-> <<"R", "I">>,
           name |-> <<"R", "h", "o", "d", "e", " ", "I", "s", "l", "a", "n", "d">>,
           cities |-> <<
               <<"P", "r", "o", "v", "i", "d", "e", "n", "c", "e">>,
               <<"W", "a", "r", "w", "i", "c", "k">>,
               <<"C", "r", "a", "n", "s", "t", "o", "n">>,
               <<"P", "a", "w", "t", "u", "c", "k", "e", "t">>,
               <<"E", "a", "s", "t", " ", "P", "r", "o", "v", "i", "d", "e", "n", "c", "e">>>>]
    @@ "VT" :> [code |-> <<"V", "T">>,
           name |-> <<"V", "e", "r", "m", "o", "n", "t">>,
           cities |-> <<
               <<"B", "u", "r", "l", "i", "n", "g", "t", "o", "n">>,
               <<"S", "o", "u", "t", "h", " ", "B", "u", "r", "l", "i", "n", "g", "t", "o", "n">>,
               <<"R", "u", "t", "l", "a", "n", "d">>,
               <<"B", "a", "r", "r", "e">>,
               <<"M", "o", "n", "t", "p", "e", "l", "i", "e", "r">>>>]

\* ---------------------------------------------------------------- inputs
\* the keywords typed into the search box ("" is the empty box)
KeywordInputs == {"", "engineer"}
\* the checked state boxes, in document order: of a session's searches (Spec)
\* and of a single run (SpecRun)
StateSelections == {<<>>, <<"CT">>}
RunSelections ==
    {<<>>, <<"CT">>, <<"CT", "MA">>, <<"CT", "MA", "ME">>,
     <<"CT", "MA", "ME", "NH">>}
\* the listing arrays the API answers with; a listing is named by its job_id
\* and tagged with the query that returned it
JobIdLists == {<<1>>, <<2, 1>>}

VARIABLES
    now,          \* Date.now()
    online,       \* navigator.onLine
    apiKey,       \* whether getApiKey() is non-empty
    rateLimit,    \* CONFIG.RATE_LIMIT
    requestLog,   \* JobsAPI requestLog
    cache,        \* sessionStorage entries api_cache_<url>
    searching,    \* a searchAllCategories run is in flight
    queries,      \* its plan
    batchStart,   \* the loop variable i (1-based)
    promises,     \* per query of the plan: not started, pending, or settled
    results,      \* the settled results pushed so far
    completed,    \* the completed counter
    progress,     \* the onProgress calls of this run, <<completed, total>>
    rawJobs,      \* window._currentSearchResults
    uiState,      \* the state UI.showState was last given
    uiMessage,    \* the message of the error state
    checks,       \* history: the canMakeRequest calls of the last handler:
                  \* the answer, the log length on entry, and how many
                  \* recorded timestamps lay in the window
    recorded,     \* history: every recordRequest timestamp still in the window
    rpc,          \* withRetry: where it is
    outcome,      \* withRetry: how its promise settled
    maxRetries,   \* withRetry: its argument
    attempt,      \* withRetry: the loop variable
    lastError,    \* withRetry: lastError
    calls,        \* history: the outcome of each invocation of fn
    delays,       \* history: the setTimeout delays asked for
    timer,        \* the pending setTimeout: ms left, -1 when none
    elapsed,      \* history: ms that passed before each retry
    waited,       \* ms passed since the pending setTimeout was set
    filterStates, \* history: the state boxes getFilterValues found checked
    planOptions,  \* history: the options searchAllCategories was last given
    inserted,     \* history: per cache key, when it was last set (-1: never)
    lastGet,      \* history: the last getSessionCache call and its answer
    jobList,      \* Filters: the listings a function is called on
    filterOptions, \* Filters: the filterOptions (or keywords and themes)
    returned,     \* Filters: <<>> before the call, then <<its return value>>
    alerts,       \* localStorage jobAlerts
    seenJobs,     \* localStorage seenJobs
    checkLog,     \* history: the checkAlerts calls
    enteredAt,    \* history: per identifier, its entry number (0: never in)
    savedJobs,    \* localStorage savedJobs
    detailJob,    \* window._currentDetailJob: <<>> or <<the listing>>
    savedOp,      \* history: the last SavedJobs call, the list it found,
                  \* what it returned and whether its write succeeded
    flights,      \* the handleSearch calls of overlapping searches
    currentKeywords, \* App currentKeywords
    filteredJobs, \* App filteredJobs
    fetchLog      \* history: the fetchFromAPI calls of the last batch: how
                  \* each ended and the rate-limit log before and after

searchVars == <<now, online, apiKey, rateLimit, requestLog, cache, searching, queries,
                batchStart, promises, results, completed, progress,
                rawJobs, uiState, uiMessage, checks, recorded, filterStates,
                planOptions, fetchLog>>
retryVars == <<rpc, outcome, maxRetries, attempt, lastError, calls, delays, timer,
               elapsed, waited>>
cacheVars == <<inserted, lastGet>>
filterVars == <<jobList, filterOptions, returned>>
alertVars == <<alerts, seenJobs, checkLog, enteredAt>>
savedVars == <<savedJobs, detailJob, savedOp>>
overlapVars == <<flights, currentKeywords, filteredJobs>>
appVars == <<savedVars, overlapVars>>
compVars == <<cacheVars, filterVars, alertVars, appVars>>
vars == <<searchVars, retryVars, compVars>>

\* ------------------------------------------------------------- helpers
Min(a, b) == IF a < b THEN a ELSE b

Range(s) == {s[k] : k \in DOMAIN s}

RECURSIVE ConcatAll(_)
ConcatAll(ss) == IF ss = <<>> THEN <<>> ELSE Head(ss) \o ConcatAll(Tail(ss))

\* ------------------------------------------------------------ rate limiter
\* faulty variant: the loop with <= : an entry exactly windowMs old is dropped too
RECURSIVE PruneLogInclusive(_, _)
PruneLogInclusive(log, t) ==
    IF Len(log) > 0 /\ log[1] <= t - rateLimit.windowMs
    THEN PruneLogInclusive(Tail(log), t)
    ELSE log

\* canMakeRequest's loop: shift entries older than the window off the front
RECURSIVE PruneLog(_, _)
PruneLog(log, t) ==
    IF Len(log) > 0 /\ log[1] < t - rateLimit.windowMs
    THEN PruneLog(Tail(log), t)
    ELSE log

\* canMakeRequest's answer on the pruned log
CanMake(log) == Len(log) < rateLimit.maxRequests

\* history: how many recorded timestamps lie in the trailing window at t
InWindow(rec, t) ==
    Cardinality({k \in DOMAIN rec : rec[k] >= t - rateLimit.windowMs})

\* ------------------------------------------------------------ session cache
NoValue == [hasData |-> FALSE, data |-> <<>>]
NoEntry == [present |-> FALSE, data |-> NoValue, timestamp |-> 0]

IsFresh(c, key, t) ==
    c[key].present /\ t - c[key].timestamp <= CacheDurationMs

\* faulty variant: an entry exactly CACHE_DURATION_MS old is expired already
getSessionCacheEarly(c, key, t) ==
    IF ~c[key].present
    THEN [cache |-> c, hit |-> FALSE, value |-> NoValue]
    ELSE IF t - c[key].timestamp >= CacheDurationMs
         THEN [cache |-> [c EXCEPT ![key] = NoEntry], hit |-> FALSE,
               value |-> NoValue]
         ELSE [cache |-> c, hit |-> TRUE, value |-> c[key].data]

\* Utils.getSessionCache: an absent item is null, an expired one is removed
getSessionCache(c, key, t) ==
    IF ~c[key].present
    THEN [cache |-> c, hit |-> FALSE, value |-> NoValue]
    ELSE IF t - c[key].timestamp > CacheDurationMs
         THEN [cache |-> [c EXCEPT ![key] = NoEntry], hit |-> FALSE,
               value |-> NoValue]
         ELSE [cache |-> c, hit |-> TRUE, value |-> c[key].data]

\* Utils.setSessionCache
setSessionCache(c, key, data, t) ==
    [c EXCEPT ![key] = [present |-> TRUE, data |-> data, timestamp |-> t]]

\* ------------------------------------------------------------ query planner
RemoteQuery(keywords) ==
    [query |-> <<keywords, "remote">>, remoteOnly |-> TRUE]

CityQuery(keywords, stateCode) ==
    [query |-> <<keywords, "in", FirstCity(stateCode), stateCode>>,
     remoteOnly |-> FALSE]

RECURSIVE CityQueries(_, _)
CityQueries(keywords, selectedStates) ==
    IF selectedStates = <<>> THEN <<>>
    ELSE LET stateCode == Head(selectedStates)
             rest == CityQueries(keywords, Tail(selectedStates))
         IN  IF stateCode \in NE_STATE_CODES
             THEN <<CityQuery(keywords, stateCode)>> \o rest
             ELSE rest

\* faulty variant: the remote query is pushed after the city queries
buildSearchQueriesRemoteLast(keywords, states) ==
    CityQueries(keywords, states) \o <<RemoteQuery(keywords)>>

buildSearchQueries(keywords, states) ==
    <<RemoteQuery(keywords)>> \o CityQueries(keywords, states)

\* options.states || Object.keys(CONFIG.NE_STATES), on the options object a
\* caller of searchAllCategories passes (an empty array is truthy)
selectedStates(options) ==
    IF options.hasStates THEN options.states ELSE NE_STATE_KEYS

\* every request signature the inputs can produce
CacheKeys ==
    UNION {Range(buildSearchQueries(kw, st)) :
              kw \in (KeywordInputs \ {""}) \cup {"nurse"},
              st \in StateSelections \cup RunSelections \cup {NE_STATE_KEYS}}

\* ------------------------------------------------------------ fetchFromAPI
NotStarted ==
    [status |-> "notstarted", value |-> NoValue, reason |-> "", via |-> "",
     fresh |-> FALSE]
Pending ==
    [status |-> "pending", value |-> NoValue, reason |-> "", via |-> "network",
     fresh |-> FALSE]
Fulfilled(value, via, fresh) ==
    [status |-> "fulfilled", value |-> value, reason |-> "", via |-> via,
     fresh |-> fresh]
Rejected(reason, via, fresh) ==
    [status |-> "rejected", value |-> NoValue, reason |-> reason, via |-> via,
     fresh |-> fresh]

Settled(p) == p.status \in {"fulfilled", "rejected"}

\* faulty variant: the request is recorded as soon as the limiter allows it,
\* before the offline check and the cache lookup
FetchStartRecordsFirst(st, q, t, key, isOnline) ==
    LET fresh == IsFresh(st.cache, q, t)
        Noted(st2, via) ==
            [st2 EXCEPT !.fetched =
                Append(@, [via |-> via, at |-> t, held |-> st.log,
                           left |-> st2.log])]
    IN
    IF ~key THEN [st |-> Noted(st, "nokey"),
                  p |-> Rejected(NO_KEY, "nokey", fresh)]
    ELSE
    LET pruned == PruneLog(st.log, t)
        allowed == CanMake(pruned)
        chk == [allowed |-> allowed, held |-> Len(st.log),
                inWindow |-> InWindow(st.recorded, t)]
        st1 == [st EXCEPT !.log = pruned, !.checks = Append(@, chk)]
        st2 == [st1 EXCEPT !.log = Append(pruned, t),
                           !.recorded = Append(@, t)]
    IN
    IF ~allowed THEN [st |-> Noted(st1, "limiter"),
                      p |-> Rejected(RATE_LIMITED, "limiter", fresh)]
    ELSE IF ~isOnline THEN [st |-> Noted(st2, "offline"),
                            p |-> Rejected(OFFLINE, "offline", fresh)]
    ELSE
    LET got == getSessionCache(st2.cache, q, t)
    IN
    IF got.hit
    THEN [st |-> Noted([st2 EXCEPT !.cache = got.cache], "cache"),
          p |-> Fulfilled(got.value, "cache", fresh)]
    ELSE [st |-> Noted([st2 EXCEPT !.cache = got.cache], "network"),
          p |-> Pending]

\* fetchFromAPI up to its first await, on st = [log, cache, recorded, checks,
\* fetched].  "fresh" is history: whether the cache held an unexpired entry
\* on entry; "fetched" is history: how the call ended (via), the log it found
\* (held) and the log it left (left).
FetchStart(st, q, t, key, isOnline) ==
    LET fresh == IsFresh(st.cache, q, t)
        Noted(st2, via) ==
            [st2 EXCEPT !.fetched =
                Append(@, [via |-> via, at |-> t, held |-> st.log,
                           left |-> st2.log])]
    IN
    IF ~key THEN [st |-> Noted(st, "nokey"),
                  p |-> Rejected(NO_KEY, "nokey", fresh)]
    ELSE
    LET pruned == PruneLog(st.log, t)
        allowed == CanMake(pruned)
        chk == [allowed |-> allowed, held |-> Len(st.log),
                inWindow |-> InWindow(st.recorded, t)]
        st1 == [st EXCEPT !.log = pruned, !.checks = Append(@, chk)]
    IN
    IF ~allowed THEN [st |-> Noted(st1, "limiter"),
                      p |-> Rejected(RATE_LIMITED, "limiter", fresh)]
    ELSE IF ~isOnline THEN [st |-> Noted(st1, "offline"),
                            p |-> Rejected(OFFLINE, "offline", fresh)]
    ELSE
    LET got == getSessionCache(st1.cache, q, t)
    IN
    IF got.hit
    THEN [st |-> Noted([st1 EXCEPT !.cache = got.cache], "cache"),
          p |-> Fulfilled(got.value, "cache", fresh)]
    ELSE [st |-> Noted([st1 EXCEPT !.cache = got.cache,
                                   !.log = Append(pruned, t),
                                   !.recorded = Append(@, t)], "network"),
          p |-> Pending]

\* the answers of the API (or of the transport) to one request
ListingsOf(q, ids) ==
    [hasData |-> TRUE,
     data |-> [k \in 1..Len(ids) |-> [job_id |-> ids[k], src |-> q.query]]]

Answers(q) ==
    {[status |-> 200, json |-> TRUE, body |-> ListingsOf(q, ids)] :
        ids \in JobIdLists}
    \cup {[status |-> 200, json |-> TRUE, body |-> NoValue],
          [status |-> 200, json |-> FALSE, body |-> NoValue],
          [status |-> 0, json |-> FALSE, body |-> NoValue]}
    \cup {[status |-> s, json |-> FALSE, body |-> NoValue] :
             s \in {429, 401, 403, 500}}

\* the answers a session's searches get (Spec)
SessionAnswers(q) ==
    {[status |-> 200, json |-> TRUE, body |-> ListingsOf(q, <<1>>)],
     [status |-> 429, json |-> FALSE, body |-> NoValue],
     [status |-> 500, json |-> FALSE, body |-> NoValue]}

\* fetchFromAPI after its awaits: how the promise settles on answer a
\* (status 0: fetch itself rejected; json FALSE: response.json() rejected)
FetchSettle(a) ==
    IF a.status = 0 THEN Rejected(FETCH_FAILED, "network", FALSE)
    ELSE IF a.status # 200
    THEN IF a.status = 429 THEN Rejected(RATE_LIMITED, "network", FALSE)
         ELSE IF a.status = 401 \/ a.status = 403
              THEN Rejected(INVALID_KEY, "network", FALSE)
              ELSE Rejected(REQUEST_FAILED, "network", FALSE)
    ELSE IF ~a.json THEN Rejected(BAD_JSON, "network", FALSE)
    ELSE Fulfilled(a.body, "network", FALSE)

\* ------------------------------------------------------ searchAllCategories
\* queries.slice(i, i + concurrencyLimit), as the last index of the batch
BatchEnd(i, n) == Min(i + concurrencyLimit - 1, n)

\* faulty variant: the batch is left as soon as one of its promises has settled
AnySettled(ps, i) == \E k \in i..BatchEnd(i, Len(ps)) : Settled(ps[k])

\* Promise.allSettled over the batch starting at i has resolved
AllSettled(ps, i) == \A k \in i..BatchEnd(i, Len(ps)) : Settled(ps[k])

\* faulty variant: every request of the batch checks the limiter on the log
\* as it was when the batch started, and the recordings follow
RECURSIVE StartQueriesChecksFirst(_, _, _, _, _)
StartQueriesChecksFirst(st, ps, plan, k, hi) ==
    IF k > hi THEN [st |-> st, ps |-> ps]
    ELSE LET r == FetchStart(st, plan[k], now, apiKey, online)
             rest == StartQueriesChecksFirst(
                        [r.st EXCEPT !.log = st.log], [ps EXCEPT ![k] = r.p],
                        plan, k + 1, hi)
             mine == IF r.p.status = "pending" THEN <<now>> ELSE <<>>
         IN  [st |-> [rest.st EXCEPT !.log = @ \o mine], ps |-> rest.ps]

\* batch.map(q => searchJobs(...)): each request runs to its first await, in
\* plan order, over the shared log and cache
RECURSIVE StartQueries(_, _, _, _, _)
StartQueries(st, ps, plan, k, hi) ==
    IF k > hi THEN [st |-> st, ps |-> ps]
    ELSE LET r == FetchStart(st, plan[k], now, apiKey, online)
         IN  StartQueries(r.st, [ps EXCEPT ![k] = r.p], plan, k + 1, hi)

\* faulty variant: completed += concurrencyLimit
NextCompletedByLimit(done, i, n) == done + concurrencyLimit

\* completed += batch.length
NextCompleted(done, i, n) == done + (BatchEnd(i, n) - i + 1)

DataOf(r) ==
    IF r.status = "fulfilled" /\ r.value.hasData THEN r.value.data ELSE <<>>

\* faulty variant: each result is pushed when its promise settles
BatchResultsAsSettled(ps, order, lo, hi) ==
    LET mine == SelectSeq(order, LAMBDA k : k >= lo /\ k <= hi)
    IN  [i \in DOMAIN mine |-> ps[mine[i]]]

\* results.push(...batchResults): Promise.allSettled hands the results over
\* in the order of the batch, whatever the order they settled in
BatchResults(ps, order, lo, hi) == SubSeq(ps, lo, hi)

\* faulty variant: a listing is dropped when its job_id comes again later
RECURSIVE DedupeKeepLast(_, _)
DedupeKeepLast(jobs, seenIds) ==
    IF jobs = <<>> THEN <<>>
    ELSE LET job == Head(jobs)
         IN  IF \E k \in DOMAIN Tail(jobs) : Tail(jobs)[k].job_id = job.job_id
             THEN DedupeKeepLast(Tail(jobs), seenIds)
             ELSE <<job>> \o DedupeKeepLast(Tail(jobs), seenIds)

\* the collect loop over one result's data: seenIds decides what is pushed
RECURSIVE Dedupe(_, _)
Dedupe(jobs, seenIds) ==
    IF jobs = <<>> THEN <<>>
    ELSE LET job == Head(jobs)
         IN  IF job.job_id \in seenIds
             THEN Dedupe(Tail(jobs), seenIds)
             ELSE <<job>> \o Dedupe(Tail(jobs), seenIds \cup {job.job_id})

\* allJobs after the collect loop over results
Collect(res) == Dedupe(ConcatAll([k \in DOMAIN res |-> DataOf(res[k])]), {})

\* faulty variant: Promise.all in place of Promise.allSettled: the first rejection
\* of the plan rejects the search
SearchResultFailFast(res) ==
    IF \E k \in DOMAIN res : res[k].status = "rejected"
    THEN LET first == CHOOSE k \in DOMAIN res :
                         /\ res[k].status = "rejected"
                         /\ \A j \in 1..(k - 1) : res[j].status # "rejected"
         IN  [ok |-> FALSE, value |-> <<>>, error |-> res[first].reason]
    ELSE [ok |-> TRUE, value |-> Collect(res), error |-> ""]

\* how the promise of searchAllCategories settles once the loop has ended
SearchResult(res) == [ok |-> TRUE, value |-> Collect(res), error |-> ""]

\* ---------------------------------------------------------------- withRetry
\* faulty variant: RATE_LIMITED is retried like any other error
RetryDecisionNoRateLimit(res, att, maxR) ==
    IF res.ok THEN [kind |-> "return", delay |-> 0]
    ELSE IF att < maxR
         THEN [kind |-> "wait", delay |-> BackoffUnitMs * (att + 1)]
         ELSE [kind |-> "throw", delay |-> 0]

\* faulty variant: the same delay before every retry
RetryDecisionFlatDelay(res, att, maxR) ==
    IF res.ok THEN [kind |-> "return", delay |-> 0]
    ELSE IF res.error = RATE_LIMITED THEN [kind |-> "throw", delay |-> 0]
    ELSE IF att < maxR
         THEN [kind |-> "wait", delay |-> BackoffUnitMs]
         ELSE [kind |-> "throw", delay |-> 0]

\* what one iteration of the loop does once fn() has settled with res
RetryDecision(res, att, maxR) ==
    IF res.ok THEN [kind |-> "return", delay |-> 0]
    ELSE IF res.error = RATE_LIMITED THEN [kind |-> "throw", delay |-> 0]
    ELSE IF att < maxR
         THEN [kind |-> "wait", delay |-> BackoffUnitMs * (att + 1)]
         ELSE [kind |-> "throw", delay |-> 0]

NotSettled == [state |-> "pending", value |-> <<>>, error |-> ""]

\* withRetry is entered and calls fn() for the first time
RetryEnter(maxR) ==
    /\ rpc' = "calling"
    /\ outcome' = NotSettled
    /\ maxRetries' = maxR
    /\ attempt' = 0
    /\ lastError' = ""
    /\ calls' = <<>>
    /\ delays' = <<>>
    /\ timer' = -1
    /\ elapsed' = <<>>
    /\ waited' = 0

\* the awaited fn() settles with res
FnSettles(res) ==
    LET dec == RetryDecision(res, attempt, maxRetries)
    IN  /\ calls' = Append(calls, res)
        /\ lastError' = IF res.ok THEN lastError ELSE res.error
        /\ rpc' = CASE dec.kind = "return" -> "returned"
                    [] dec.kind = "throw" -> "thrown"
                    [] dec.kind = "wait" -> "waiting"
        /\ outcome' = CASE dec.kind = "return" ->
                             [state |-> "returned", value |-> res.value,
                              error |-> ""]
                        [] dec.kind = "throw" ->
                             [state |-> "thrown", value |-> <<>>,
                              error |-> res.error]
                        [] dec.kind = "wait" -> outcome
        /\ delays' = IF dec.kind = "wait" THEN Append(delays, dec.delay)
                     ELSE delays
        /\ timer' = IF dec.kind = "wait" THEN dec.delay ELSE -1
        /\ waited' = 0
        /\ UNCHANGED <<maxRetries, attempt, elapsed>>

\* ------------------------------------------------------------------ Filters
\* A listing is a record of the fields the code reads.  job_is_remote holds
\* the JSON value as text ("true", "false", "null"); a salary is <<>> when
\* the field is missing and <<n>> otherwise.

\* NE_STATE_CODES of filters.js, as JavaScript strings
NE_STATE_CODE_STRINGS == {NE_STATES[c].code : c \in NE_STATE_CODES}

\* NE_STATE_NAMES of filters.js: the code each full name stands for
NE_STATE_NAMES ==
    "CT" :> <<"c", "o", "n", "n", "e", "c", "t", "i", "c", "u", "t">>
    @@ "MA" :> <<"m", "a", "s", "s", "a", "c", "h", "u", "s", "e", "t", "t", "s">>
    @@ "ME" :> <<"m", "a", "i", "n", "e">>
    @@ "NH" :> <<"n", "e", "w", " ", "h", "a", "m", "p", "s", "h", "i", "r", "e">>
    @@ "RI" :> <<"r", "h", "o", "d", "e", " ", "i", "s", "l", "a", "n", "d">>
    @@ "VT" :> <<"v", "e", "r", "m", "o", "n", "t">>

ALL_NE_CITIES ==
    {toLowerCase(NE_STATES[c].cities[k]) :
        c \in NE_STATE_CODES, k \in 1..5}

isNELocation(job) ==
    LET state == trim(OrEmpty(job.job_state))
        city == trim(toLowerCase(OrEmpty(job.job_city)))
        description == toLowerCase(OrEmpty(job.job_description))
    IN  \/ toUpperCase(state) \in NE_STATE_CODE_STRINGS
        \/ \E c \in DOMAIN NE_STATE_NAMES :
              \/ toLowerCase(state) = NE_STATE_NAMES[c]
              \/ includes(description, NE_STATE_NAMES[c])
                    /\ city \in ALL_NE_CITIES
        \/ city \in ALL_NE_CITIES

\* faulty variant: a listing that is neither remote, nor in New England, nor
\* hybrid does not qualify
CategorizeStrict(isRemote, isInNEState, isUS, isHybrid) ==
    IF isRemote /\ isInNEState THEN <<TRUE, "remote-ne-company", 1>>
    ELSE IF isRemote /\ isUS THEN <<TRUE, "remote-us", 2>>
    ELSE IF isRemote THEN <<TRUE, "remote", 3>>
    ELSE IF isInNEState /\ isHybrid THEN <<TRUE, "hybrid-ne", 4>>
    ELSE IF isInNEState THEN <<TRUE, "onsite-ne", 5>>
    ELSE IF isHybrid THEN <<TRUE, "hybrid-ne", 6>>
    ELSE <<FALSE, "none", 7>>

\* faulty variant: the country is looked at before the state
CategorizeCountryFirst(isRemote, isInNEState, isUS, isHybrid) ==
    IF isRemote /\ isUS THEN <<TRUE, "remote-us", 2>>
    ELSE IF isRemote /\ isInNEState THEN <<TRUE, "remote-ne-company", 1>>
    ELSE IF isRemote THEN <<TRUE, "remote", 3>>
    ELSE IF isInNEState /\ isHybrid THEN <<TRUE, "hybrid-ne", 4>>
    ELSE IF isInNEState THEN <<TRUE, "onsite-ne", 5>>
    ELSE IF isHybrid THEN <<TRUE, "hybrid-ne", 6>>
    ELSE <<TRUE, "onsite-ne", 7>>

\* the "category determination" of isQualifyingJob: qualifies, category and
\* which of the seven returns is taken
Categorize(isRemote, isInNEState, isUS, isHybrid) ==
    IF isRemote /\ isInNEState THEN <<TRUE, "remote-ne-company", 1>>
    ELSE IF isRemote /\ isUS THEN <<TRUE, "remote-us", 2>>
    ELSE IF isRemote THEN <<TRUE, "remote", 3>>
    ELSE IF isInNEState /\ isHybrid THEN <<TRUE, "hybrid-ne", 4>>
    ELSE IF isInNEState THEN <<TRUE, "onsite-ne", 5>>
    ELSE IF isHybrid THEN <<TRUE, "hybrid-ne", 6>>
    ELSE <<TRUE, "onsite-ne", 7>>

\* the reason template of each return, as its pieces
ReasonOf(branch, jobCity, jobState, jobCountry) ==
    LET where == IF jobState # <<>> THEN jobState ELSE jobCountry
    IN  CASE branch = 1 ->
               <<"Remote position from ", jobCity, ", ", jobState, " company">>
          [] branch = 2 -> <<"Remote position available in the US">>
          [] branch = 3 -> <<"Fully remote position">>
          [] branch = 4 -> <<"Hybrid position in ", jobCity, ", ", jobState>>
          [] branch = 5 -> <<"On-site position in ", jobCity, ", ", jobState>>
          [] branch = 6 -> <<"Hybrid position in ", jobCity, ", ", where>>
          [] branch = 7 -> <<"On-site position in ", jobCity, ", ", where>>

isQualifyingJob(job) ==
    LET isRemote == job.job_is_remote = "true"
        jobState == trim(toUpperCase(OrEmpty(job.job_state)))
        jobCountry == trim(toUpperCase(OrEmpty(job.job_country)))
        title == toLowerCase(OrEmpty(job.job_title))
        description == toLowerCase(OrEmpty(job.job_description))
        isInNEState == jobState \in NE_STATE_CODE_STRINGS \/ isNELocation(job)
        isHybrid == \/ includes(title, <<"h", "y", "b", "r", "i", "d">>)
                    \/ includes(description, <<"h", "y", "b", "r", "i", "d">>)
        cat == Categorize(isRemote, isInNEState, jobCountry = <<"U", "S">>,
                          isHybrid)
    IN  [qualifies |-> cat[1], category |-> cat[2],
         reason |-> ReasonOf(cat[3], OrEmpty(job.job_city), jobState,
                             jobCountry)]

\* the first state, in the order of CONFIG.NE_STATES, one of whose cities is
\* city; 0 when there is none
CityStateIndex(city) ==
    LET has(k) == \E j \in 1..5 :
                     toLowerCase(NE_STATES[NE_STATE_KEYS[k]].cities[j]) = city
    IN  IF \E k \in DOMAIN NE_STATE_KEYS : has(k)
        THEN CHOOSE k \in DOMAIN NE_STATE_KEYS :
                 has(k) /\ \A j \in 1..(k - 1) : ~has(j)
        ELSE 0

\* NE_STATE_NAMES is an object literal: NE_STATE_NAMES[stateLower] also finds
\* what the object inherits under these keys (Object and Object.prototype),
\* and getJobNEState returns that: a value that is neither null nor a code
InheritedKeys ==
    {<<"c", "o", "n", "s", "t", "r", "u", "c", "t", "o", "r">>,
     <<"_", "_", "p", "r", "o", "t", "o", "_", "_">>}
InheritedValue == <<"[object]">>

getJobNEState(job) ==
    LET state == toUpperCase(trim(OrEmpty(job.job_state)))
        stateLower == toLowerCase(trim(OrEmpty(job.job_state)))
        city == trim(toLowerCase(OrEmpty(job.job_city)))
    IN  IF state \in NE_STATE_CODE_STRINGS THEN state
        ELSE IF \E c \in DOMAIN NE_STATE_NAMES : NE_STATE_NAMES[c] = stateLower
        THEN NE_STATES[CHOOSE c \in DOMAIN NE_STATE_NAMES :
                           NE_STATE_NAMES[c] = stateLower].code
        ELSE IF stateLower \in InheritedKeys THEN InheritedValue
        ELSE IF CityStateIndex(city) > 0
        THEN NE_STATES[NE_STATE_KEYS[CityStateIndex(city)]].code
        ELSE Null

\* a listing with the given location and text fields and nothing else
Listing(id, remote, state, city, country, title, description) ==
    [job_id |-> id, job_is_remote |-> remote, job_state |-> state,
     job_city |-> city, job_country |-> country, job_title |-> title,
     job_description |-> description, employer_name |-> Null,
     qualifications |-> <<>>, responsibilities |-> <<>>,
     job_min_salary |-> <<>>, job_max_salary |-> <<>>]

\* the listings the classifier is run on: each field missing, empty or in
\* one of several spellings
ClassifyListings ==
    LET
        states ==
            {Null,
             <<>>,
             <<"C", "T">>,
             <<" ", "m", "a", " ">>,
             <<"V", "e", "r", "m", "o", "n", "t">>,
             <<"n", "e", "w", " ", "h", "a", "m", "p", "s", "h", "i", "r", "e">>,
             <<"N", "Y">>,
             <<"O", "n", "t", "a", "r", "i", "o">>,
             <<"C", "o", "n", "s", "t", "r", "u", "c", "t", "o", "r">>}
        cities ==
            {Null,
             <<"B", "o", "s", "t", "o", "n">>,
             <<" ", "h", "a", "r", "t", "f", "o", "r", "d", " ">>,
             <<"P", "o", "r", "t", "l", "a", "n", "d">>,
             <<"A", "u", "s", "t", "i", "n">>}
        countries ==
            {Null,
             <<"U", "S">>,
             <<"u", "s", " ">>,
             <<"C", "A">>}
        titles ==
            {Null,
             <<"H", "y", "b", "r", "i", "d", " ", "E", "n", "g", "i", "n", "e", "e", "r">>,
             <<"E", "n", "g", "i", "n", "e", "e", "r">>}
        descriptions ==
            {Null,
             <<"H", "Y", "B", "R", "I", "D", " ", "r", "o", "l", "e">>,
             <<"O", "f", "f", "i", "c", "e", " ", "i", "n", " ", "V", "e", "r", "m", "o", "n", "t">>,
             <<"O", "n", " ", "s", "i", "t", "e">>}
    IN  {Listing(1, remote, state, city, country, title, description) :
            remote \in {"true", "false", "null"}, state \in states,
            city \in cities, country \in countries, title \in titles,
            description \in descriptions}

\* ---------------------------------------------------- scoreJobRelevance
\* Scores are counted in half points: 3 stands for 1.5 and 20 for 10.

\* keywords.toLowerCase().split(/[\s,]+/): the runs of characters between
\* blanks and commas (the empty strings split also yields are dropped by the
\* length filter that follows)
RECURSIVE splitWords(_, _)
splitWords(str, word) ==
    IF str = <<>> THEN (IF word = <<>> THEN <<>> ELSE <<word>>)
    ELSE IF Head(str) \in {" ", ","}
         THEN (IF word = <<>> THEN <<>> ELSE <<word>>)
                 \o splitWords(Tail(str), <<>>)
         ELSE splitWords(Tail(str), Append(word, Head(str)))

\* .filter(t => t.length > 1)
LongerThanOne(terms) == SelectSeq(terms, LAMBDA t : Len(t) > 1)

\* array.join(' ')
RECURSIVE joinSpaced(_)
joinSpaced(parts) ==
    IF parts = <<>> THEN <<>>
    ELSE IF Len(parts) = 1 THEN parts[1]
    ELSE Spaced(Head(parts), joinSpaced(Tail(parts)))

\* how many of the terms text includes, each term of the list counted
MatchCount(terms, text) ==
    Cardinality({k \in DOMAIN terms : includes(text, terms[k])})

\* CONFIG has no SPORTS_THEMES and no MARKETING_KEYWORDS:
\* (CONFIG.SPORTS_THEMES || []) and (CONFIG.MARKETING_KEYWORDS || [])
SPORTS_THEMES == <<>>
MARKETING_KEYWORDS == <<>>

\* the title bucket: Math.min(3, titleMatches * 1.5), in half points
TitleBucket(job, keywords) ==
    LET searchTerms == LongerThanOne(splitWords(toLowerCase(keywords), <<>>))
        title == toLowerCase(OrEmpty(job.job_title))
    IN  Min(6, MatchCount(searchTerms, title) * 3)

\* score before Math.round, on non-empty keywords or themes
BucketSum(job, keywords, themes) ==
    LET searchTerms == LongerThanOne(splitWords(toLowerCase(keywords), <<>>))
        themeTerms ==
            LongerThanOne([k \in DOMAIN themes |->
                              trim(toLowerCase(themes[k]))])
        title == toLowerCase(OrEmpty(job.job_title))
        description == toLowerCase(OrEmpty(job.job_description))
        company == toLowerCase(OrEmpty(job.employer_name))
        allText == Spaced(title, Spaced(description, company))
        qualifications == toLowerCase(joinSpaced(job.qualifications))
        responsibilities == toLowerCase(joinSpaced(job.responsibilities))
        contentMatches == 2 * MatchCount(searchTerms, description)
                             + MatchCount(searchTerms, qualifications)
                             + MatchCount(searchTerms, responsibilities)
        themeMatches == 2 * MatchCount(themeTerms, title)
                           + MatchCount(themeTerms, description)
        sportsScore ==
            (IF MatchCount(SPORTS_THEMES, title) > 0 THEN 3 ELSE 0)
               + (IF MatchCount(SPORTS_THEMES, allText) > 0 THEN 1 ELSE 0)
    IN  TitleBucket(job, keywords)
           + Min(4, contentMatches)
           + Min(2, themeMatches)
           + Min(4, sportsScore)
           + (IF MatchCount(MARKETING_KEYWORDS, title) > 0 THEN 2 ELSE 0)
           + (IF MatchCount(searchTerms, company) > 0 THEN 2 ELSE 0)

\* faulty variant: the score is returned as it was summed
MathRoundNone(halves) == halves

\* Math.round on a count of half points: the nearest whole number of points,
\* a half going up
MathRound(halves) == 2 * ((halves + 1) \div 2)

scoreJobRelevance(job, keywords, themes) ==
    IF keywords = <<>> /\ Len(themes) = 0 THEN 10
    ELSE Min(20, MathRound(BucketSum(job, keywords, themes)))

\* the keyword strings and theme lists scoreJobRelevance is called on
KeywordStrings ==
    {<<>>,
     <<"e", "n", "g", "i", "n", "e", "e", "r">>,
     <<"S", "e", "n", "i", "o", "r", ",", " ", "e", "n", "g", "i", "n", "e", "e", "r">>,
     <<"a", " ", "b">>,
     <<"e", "n", "g", "i", "n", "e", "e", "r", " ", "e", "n", "g", "i", "n", "e", "e", "r">>,
     <<"E", "N", "G", "I", "N", "E", "E", "R", " ", "a", "c", "m", "e">>}

ThemeLists ==
    {<<>>,
     <<<<"S", "k", "i">>>>,
     <<<<" ", "s", "n", "o", "w", " ">>, <<"x">>>>}

\* the listings it is called on
ScoreListings ==
    LET
        titles ==
            {Null,
             <<"S", "e", "n", "i", "o", "r", " ", "E", "n", "g", "i", "n", "e", "e", "r">>,
             <<"S", "k", "i", " ", "E", "n", "g", "i", "n", "e", "e", "r">>,
             <<"M", "a", "n", "a", "g", "e", "r">>}
        descriptions ==
            {Null,
             <<"e", "n", "g", "i", "n", "e", "e", "r", " ", "f", "o", "r", " ", "s", "n", "o", "w", " ", "s", "p", "o", "r", "t", "s">>,
             <<"s", "a", "l", "e", "s">>}
        companies ==
            {Null,
             <<"A", "c", "m", "e">>,
             <<"E", "n", "g", "i", "n", "e", "e", "r", " ", "C", "o">>}
        qualifications ==
            {<<>>,
             <<<<"e", "n", "g", "i", "n", "e", "e", "r", " ", "d", "e", "g", "r", "e", "e">>>>}
        responsibilities ==
            {<<>>,
             <<<<"s", "e", "n", "i", "o", "r", " ", "e", "n", "g", "i", "n", "e", "e", "r", " ", "t", "a", "s", "k", "s">>, <<"s", "k", "i">>>>}
    IN  {[Listing(1, "false", Null, Null, Null, title, description)
             EXCEPT !.employer_name = company, !.qualifications = quals,
                    !.responsibilities = resps] :
            title \in titles, description \in descriptions,
            company \in companies, quals \in qualifications,
            resps \in responsibilities}

\* ------------------------------------------------------------ applyFilters
\* job.job_max_salary || job.job_min_salary || 0, and the same with the two
\* fields swapped: a missing or zero figure gives way to the next
FirstSalary(first, second) ==
    IF first # <<>> /\ first[1] # 0 THEN first[1]
    ELSE IF second # <<>> /\ second[1] # 0 THEN second[1]
    ELSE 0

\* the .map of applyFilters: the listing with its three annotations
Annotate(job, options) ==
    [job |-> job,
     qualification |-> isQualifyingJob(job),
     relevanceScore |-> scoreJobRelevance(job, options.keywords,
                                          options.themes),
     neState |-> getJobNEState(job)]

\* faulty variant: a location-based listing needs a state, and a selected one
StateFilterPassesResolved(category, neState, statesSet) ==
    category \in {"hybrid-ne", "onsite-ne", "remote-ne-company"} =>
        (neState # Null /\ neState \in statesSet)

\* the state filter: only for the location-based categories
StateFilterPasses(category, neState, statesSet) ==
    category \in {"hybrid-ne", "onsite-ne", "remote-ne-company"} =>
        ~(neState # Null /\ neState \notin statesSet)

\* faulty variant: a salary equal to the minimum is filtered out too
SalaryFilterPassesAbove(jobMaxSalary, minSalary) ==
    minSalary > 0 => ~(jobMaxSalary > 0 /\ jobMaxSalary <= minSalary)

\* the salary filter
SalaryFilterPasses(jobMaxSalary, minSalary) ==
    minSalary > 0 => ~(jobMaxSalary > 0 /\ jobMaxSalary < minSalary)

\* the .filter of applyFilters on an annotated listing
FilterKeeps(item, options) ==
    /\ item.qualification.qualifies
    /\ item.qualification.category \in Range(options.categories)
    /\ StateFilterPasses(item.qualification.category, item.neState,
                         {NE_STATES[c].code : c \in Range(options.states)})
    /\ SalaryFilterPasses(FirstSalary(item.job.job_max_salary,
                                      item.job.job_min_salary),
                          options.minSalary)

\* the comparators of sortJobs: whether a has to come after b.  In
\* salary-low a listing without salary counts as Infinity, and Infinity
\* minus Infinity is NaN, which sort takes for 0.
ComesAfter(a, b, sortBy) ==
    LET highA == FirstSalary(a.job.job_max_salary, a.job.job_min_salary)
        highB == FirstSalary(b.job.job_max_salary, b.job.job_min_salary)
        lowA == FirstSalary(a.job.job_min_salary, a.job.job_max_salary)
        lowB == FirstSalary(b.job.job_min_salary, b.job.job_max_salary)
    IN  CASE sortBy = "relevance" -> b.relevanceScore - a.relevanceScore > 0
          [] sortBy = "salary-high" -> highB - highA > 0
          [] sortBy = "salary-low" ->
               IF lowA = 0 THEN lowB # 0 ELSE lowB # 0 /\ lowA - lowB > 0
          [] OTHER -> FALSE

\* Array.prototype.sort is stable: x goes in front of the first item that
\* has to come after it
RECURSIVE InsertSorted(_, _, _)
InsertSorted(sorted, x, sortBy) ==
    IF sorted = <<>> THEN <<x>>
    ELSE IF ComesAfter(Head(sorted), x, sortBy) THEN <<x>> \o sorted
    ELSE <<Head(sorted)>> \o InsertSorted(Tail(sorted), x, sortBy)

RECURSIVE sortJobs(_, _)
sortJobs(items, sortBy) ==
    IF items = <<>> THEN <<>>
    ELSE InsertSorted(sortJobs(SubSeq(items, 1, Len(items) - 1), sortBy),
                      items[Len(items)], sortBy)

applyFilters(list, options) ==
    sortJobs(SelectSeq([k \in DOMAIN list |-> Annotate(list[k], options)],
                       LAMBDA item : FilterKeeps(item, options)),
             options.sortBy)

\* the listings and filter options applyFilters is called on: a listing
\* alone, or in front of or behind a second one
FilterListings ==
    LET
        places ==
            {<<Null, Null>>,
             <<<<"C", "T">>, <<"H", "a", "r", "t", "f", "o", "r", "d">>>>,
             <<<<"N", "Y">>, Null>>,
             <<Null, <<"P", "o", "r", "t", "l", "a", "n", "d">>>>,
             <<<<"v", "e", "r", "m", "o", "n", "t">>, Null>>}
        titles ==
            {<<"E", "n", "g", "i", "n", "e", "e", "r">>,
             <<"H", "y", "b", "r", "i", "d", " ", "E", "n", "g", "i", "n", "e", "e", "r">>}
        salaries ==
            {<<<<>>, <<>>>>, <<<<30000>>, <<60000>>>>, <<<<50000>>, <<>>>>,
             <<<<>>, <<40000>>>>, <<<<30000>>, <<0>>>>, <<<<0>>, <<50000>>>>}
    IN  {[Listing(1, remote, place[1], place[2], Null, title, Null)
             EXCEPT !.job_min_salary = salary[1],
                    !.job_max_salary = salary[2]] :
            remote \in {"true", "false"}, place \in places,
            title \in titles, salary \in salaries}

OtherListing ==
    [Listing(2, "true", Null, Null, <<"U", "S">>,
             <<"S", "a", "l", "e", "s">>, Null)
        EXCEPT !.job_max_salary = <<55000>>]

FilterOptionSets ==
    {[categories |-> categories, states |-> states, minSalary |-> minSalary,
      keywords |-> <<"e", "n", "g", "i", "n", "e", "e", "r">>,
      themes |-> <<>>, sortBy |-> sortBy] :
        categories \in {<<"remote", "remote-us", "hybrid-ne", "onsite-ne",
                          "remote-ne-company">>,
                        <<"remote", "onsite-ne">>},
        states \in {<<>>, <<"CT", "MA">>, NE_STATE_KEYS},
        minSalary \in {0, 50000},
        sortBy \in {"relevance", "salary-high", "salary-low", "none"}}

\* ------------------------------------------------------------------- Alerts
\* [...new Set(list)]: each value once, at the place it came first
RECURSIVE Unique(_)
Unique(list) ==
    IF list = <<>> THEN <<>>
    ELSE LET front == Unique(SubSeq(list, 1, Len(list) - 1))
             x == list[Len(list)]
         IN  IF x \in Range(front) THEN front ELSE Append(front, x)

\* faulty variant: when the list has grown too long its tail is cut off
markJobsSeenKeepFirst(seen, jobIds) ==
    LET newSeen == Unique(seen \o jobIds)
    IN  IF Len(newSeen) > SeenLimit THEN SubSeq(newSeen, 1, SeenLimit)
        ELSE newSeen

\* markJobsSeen: the list it stores
markJobsSeen(seen, jobIds) ==
    LET newSeen == Unique(seen \o jobIds)
    IN  IF Len(newSeen) > SeenLimit
        THEN SubSeq(newSeen, Len(newSeen) - SeenLimit + 1, Len(newSeen))
        ELSE newSeen

\* faulty variant: listings already seen are matched again
AlertMatchesSeenToo(alert, job, seenSet) ==
    LET qual == isQualifyingJob(job)
        jobSalary == FirstSalary(job.job_max_salary, job.job_min_salary)
    IN  /\ \/ Len(alert.keywords) = 0
           \/ \E k \in DOMAIN alert.keywords :
                 LET kw == toLowerCase(alert.keywords[k])
                 IN  \/ includes(toLowerCase(OrEmpty(job.job_title)), kw)
                     \/ includes(toLowerCase(OrEmpty(job.job_description)),
                                 kw)
        /\ qual.qualifies
        /\ qual.category \in Range(alert.preferences.categories)
        /\ alert.preferences.minSalary > 0 =>
              ~(jobSalary > 0 /\ jobSalary < alert.preferences.minSalary)

\* the filter callback of checkAlerts
AlertMatches(alert, job, seenSet) ==
    /\ job.job_id \notin seenSet
    /\ AlertMatchesSeenToo(alert, job, seenSet)

\* checkAlerts(jobs) on the stored alerts and seen list: what it returns and
\* what it stores
checkAlerts(list, stored, seen) ==
    LET seenSet == Range(seen)
        matching == [a \in DOMAIN stored |->
                        SelectSeq(list, LAMBDA job :
                                     AlertMatches(stored[a], job, seenSet))]
        hits == SelectSeq([a \in DOMAIN stored |-> a],
                          LAMBDA a : Len(matching[a]) > 0)
        totalNew == Len(ConcatAll(matching))
    IN  [results |->
            [totalNew |-> totalNew,
             alertResults |->
                [h \in DOMAIN hits |->
                    [alert |-> stored[hits[h]],
                     newJobs |-> matching[hits[h]]]]],
         seen |-> IF Len(list) > 0
                  THEN markJobsSeen(seen, [k \in DOMAIN list |->
                                              list[k].job_id])
                  ELSE seen,
         notified |-> totalNew > 0,
         alerts |-> [a \in DOMAIN stored |->
                        [stored[a] EXCEPT !.lastChecked = <<now>>]]]

\* the raw results of a search: up to two of four listings
AlertListings ==
    {[Listing(1, "true", Null, Null, <<"U", "S">>,
              <<"B", "a", "c", "k", "e", "n", "d", " ", "E", "n", "g", "i", "n", "e", "e", "r">>, Null)
         EXCEPT !.job_max_salary = <<90000>>],
     Listing(2, "false", <<"C", "T">>, Null, Null,
             <<"D", "e", "v", "e", "l", "o", "p", "e", "r">>,
             <<"s", "o", "m", "e", " ", "B", "A", "C", "K", "E", "N", "D", " ", "w", "o", "r", "k">>),
     [Listing(3, "true", Null, Null, <<"U", "S">>,
              <<"E", "n", "g", "i", "n", "e", "e", "r">>, Null)
         EXCEPT !.job_max_salary = <<40000>>],
     Listing(4, "false", Null, Null, Null,
             <<"S", "a", "l", "e", "s">>, Null)}

AlertBatches ==
    LET AlertListing(id) == CHOOSE job \in AlertListings : job.job_id = id
    IN  {[k \in DOMAIN ids |-> AlertListing(ids[k])] :
            ids \in {<<>>, <<1>>, <<4>>, <<1, 2>>, <<1, 3>>, <<3, 4>>}}

\* createAlert: the alert is pushed behind the stored ones, never checked
createAlert(stored, alertData) ==
    Append(stored,
           [keywords |-> alertData.keywords,
            preferences |-> [categories |-> alertData.categories,
                             minSalary |-> alertData.minSalary],
            lastChecked |-> <<>>])

\* updateAlert with the updates handleFormSubmit passes, on the alert at the
\* index findIndex gave: keywords and preferences are replaced
updateAlert(stored, index, updates) ==
    [stored EXCEPT ![index] =
        [@ EXCEPT !.keywords = updates.keywords,
                  !.preferences = updates.preferences]]

\* what the alert form holds when it is submitted
BackendForm ==
    [keywords |-> <<<<"B", "a", "c", "k", "e", "n", "d">>>>,
     categories |-> <<"remote", "remote-us", "hybrid-ne", "onsite-ne",
                      "remote-ne-company">>,
     minSalary |-> 0]
RemoteEngineerForm ==
    [keywords |-> <<<<"e", "n", "g", "i", "n", "e", "e", "r">>>>,
     categories |-> <<"remote", "remote-us">>,
     minSalary |-> 50000]

\* the alerts createAlert has stored
StoredAlerts ==
    {createAlert(<<>>, BackendForm),
     createAlert(createAlert(<<>>, BackendForm), RemoteEngineerForm)}

\* ---------------------------------------------------------------- SavedJobs
\* A saved-jobs function works on the parsed list getSavedJobs() returns and
\* answers [jobs, ret]: the list it hands to saveToDisk (the list it read
\* when it writes nothing) and its return value.

\* saveToDisk: Utils.setStorage swallows a failed write, the item stays as
\* it was
saveToDisk(stored, jobs, writes) == IF writes THEN jobs ELSE stored

isSaved(jobs, jobId) == \E k \in DOMAIN jobs : jobs[k].job_id = jobId

SavedEntry(jobData, t) ==
    [job_id |-> jobData.job_id, saved_at |-> t, notes |-> "",
     job_data |-> jobData]

\* faulty variant: the listing is pushed without looking for its job_id
saveJobNoCheck(jobs, jobData, t) ==
    [jobs |-> Append(jobs, SavedEntry(jobData, t)), ret |-> TRUE]

saveJob(jobs, jobData, t) ==
    IF isSaved(jobs, jobData.job_id) THEN [jobs |-> jobs, ret |-> FALSE]
    ELSE [jobs |-> Append(jobs, SavedEntry(jobData, t)), ret |-> TRUE]

\* faulty variant: the first entry is dropped, whatever its job_id
removeJobHead(jobs, jobId) ==
    IF isSaved(jobs, jobId) THEN [jobs |-> Tail(jobs), ret |-> TRUE]
    ELSE [jobs |-> jobs, ret |-> FALSE]

removeJob(jobs, jobId) ==
    LET filtered == SelectSeq(jobs, LAMBDA j : j.job_id # jobId)
    IN  IF Len(filtered) = Len(jobs) THEN [jobs |-> jobs, ret |-> FALSE]
        ELSE [jobs |-> filtered, ret |-> TRUE]

\* window._currentSearchResults?.find(j => j.job_id === jobId)
\*     || window._currentDetailJob, as <<>> or <<the listing>>
findJob(found, detail, jobId) ==
    LET hits == SelectSeq(found, LAMBDA j : j.job_id = jobId)
    IN  IF hits # <<>> THEN <<Head(hits)>> ELSE detail

\* toggleSave returns nothing
toggleSave(jobs, jobId, found, detail, t) ==
    IF isSaved(jobs, jobId)
    THEN [jobs |-> removeJob(jobs, jobId).jobs, ret |-> "undefined"]
    ELSE LET job == findJob(found, detail, jobId)
         IN  IF job # <<>>
             THEN [jobs |-> saveJob(jobs, job[1], t).jobs, ret |-> "undefined"]
             ELSE [jobs |-> jobs, ret |-> "undefined"]

\* jobs.find gives the first entry with the id; its notes are assigned
updateNotes(jobs, jobId, notes) ==
    IF ~isSaved(jobs, jobId) THEN [jobs |-> jobs, ret |-> FALSE]
    ELSE LET k == CHOOSE i \in DOMAIN jobs :
                     /\ jobs[i].job_id = jobId
                     /\ \A j \in 1..(i - 1) : jobs[j].job_id # jobId
         IN  [jobs |-> [jobs EXCEPT ![k].notes = notes], ret |-> TRUE]

clearAll(jobs) == [jobs |-> <<>>, ret |-> "undefined"]

\* ------------------------------------------------------------------- Spec
RetryIdle ==
    /\ rpc = "idle"
    /\ outcome = NotSettled
    /\ maxRetries = DefaultMaxRetries
    /\ attempt = 0
    /\ lastError = ""
    /\ calls = <<>>
    /\ delays = <<>>
    /\ timer = -1
    /\ elapsed = <<>>
    /\ waited = 0

SearchIdle(key, limit) ==
    /\ now = 0
    /\ online = TRUE
    /\ apiKey = key
    /\ rateLimit = limit
    /\ requestLog = <<>>
    /\ cache = [q \in CacheKeys |-> NoEntry]
    /\ searching = FALSE
    /\ queries = <<>>
    /\ batchStart = 1
    /\ promises = <<>>
    /\ results = <<>>
    /\ completed = 0
    /\ progress = <<>>
    /\ rawJobs = <<>>
    /\ uiState = "initial"
    /\ uiMessage = ""
    /\ checks = <<>>
    /\ recorded = <<>>
    /\ filterStates = <<>>
    /\ planOptions = <<>>
    /\ fetchLog = <<>>

\* the component specifications are not running
NeverSet == [at |-> -1, data |-> NoValue, expired |-> FALSE]

CacheIdle ==
    /\ inserted = [q \in CacheKeys |-> NeverSet]
    /\ lastGet = <<>>

FiltersIdle ==
    /\ jobList = <<>>
    /\ filterOptions = <<>>
    /\ returned = <<>>

AlertsIdle ==
    /\ alerts = <<>>
    /\ seenJobs = <<>>
    /\ checkLog = <<>>
    /\ enteredAt = <<>>

SavedIdle ==
    /\ savedJobs = <<>>
    /\ detailJob = <<>>
    /\ savedOp = <<>>

OverlapIdle ==
    /\ flights = <<>>
    /\ currentKeywords = ""
    /\ filteredJobs = <<>>

AppIdle == SavedIdle /\ OverlapIdle

CompIdle == CacheIdle /\ FiltersIdle /\ AlertsIdle /\ AppIdle

Init ==
    /\ SearchIdle(FALSE, [maxRequests |-> MaxRequests, windowMs |-> WindowMs])
    /\ RetryIdle
    /\ CompIdle

\* a clock tick; timestamps that left the window are dropped from the history
Tick ==
    /\ now < MaxTime
    /\ now' = now + 1
    /\ recorded' = SelectSeq(recorded, LAMBDA ts : ts >= now + 1 - rateLimit.windowMs)
    /\ UNCHANGED <<online, apiKey, rateLimit, requestLog, cache, searching, queries,
                   batchStart, promises, results, completed, progress,
                   rawJobs, uiState, uiMessage, checks,
                   retryVars, filterStates, planOptions, fetchLog,
                   compVars>>

\* the browser goes offline or comes back
SetOnline ==
    /\ online' = ~online
    /\ UNCHANGED <<now, apiKey, rateLimit, requestLog, cache, searching, queries,
                   batchStart, promises, results, completed, progress,
                   rawJobs, uiState, uiMessage, checks, recorded,
                   retryVars, filterStates, planOptions, fetchLog,
                   compVars>>

\* handleSaveApiKey with a non-empty key
SaveApiKey ==
    /\ ~apiKey
    /\ apiKey' = TRUE
    /\ UNCHANGED <<now, online, rateLimit, requestLog, cache, searching, queries,
                   batchStart, promises, results, completed, progress,
                   rawJobs, uiState, uiMessage, checks, recorded,
                   retryVars, filterStates, planOptions, fetchLog,
                   compVars>>

\* JobsAPI.canMakeRequest() called on its own
CanMakeRequestCall ==
    LET pruned == PruneLog(requestLog, now)
    IN  /\ requestLog' = pruned
        /\ checks' = <<[allowed |-> CanMake(pruned), held |-> Len(requestLog),
                        inWindow |-> InWindow(recorded, now)]>>
        /\ UNCHANGED <<now, online, apiKey, rateLimit, cache, searching, queries,
                       batchStart, promises, results, completed, progress,
                       rawJobs, uiState, uiMessage, recorded,
                   retryVars, filterStates, planOptions, fetchLog,
                   compVars>>

\* withRetry calls searchAllCategories(keywords, options), which plans and
\* starts its first batch
BeginSearch(keywords, options) ==
    LET plan == buildSearchQueries(keywords, selectedStates(options))
        st0 == [log |-> requestLog, cache |-> cache,
                recorded |-> recorded, checks |-> <<>>, fetched |-> <<>>]
        started == StartQueries(st0, [k \in DOMAIN plan |-> NotStarted],
                                plan, 1, BatchEnd(1, Len(plan)))
    IN  /\ uiState' = "loading"
        /\ uiMessage' = ""
        /\ RetryEnter(DefaultMaxRetries)
        /\ searching' = TRUE
        /\ queries' = plan
        /\ batchStart' = 1
        /\ promises' = started.ps
        /\ results' = <<>>
        /\ completed' = 0
        /\ progress' = <<>>
        /\ requestLog' = started.st.log
        /\ cache' = started.st.cache
        /\ recorded' = started.st.recorded
        /\ checks' = started.st.checks
        /\ planOptions' = <<options>>
        /\ fetchLog' = started.st.fetched
        /\ UNCHANGED <<now, online, apiKey, rateLimit, rawJobs, compVars>>

\* handleSearch (app.js) up to its await: the early returns, then the search
\* is begun with the checked state boxes as options.states.  The form's
\* submit button is disabled while a search is loading (UI.setSearchLoading)
\* and the retry button shows only in the error state, so searches follow
\* one another.
HandleSearch(keywords, states) ==
    /\ ~searching
    /\ IF keywords = "" \/ ~apiKey THEN UNCHANGED vars
       ELSE /\ filterStates' = states
            /\ BeginSearch(keywords, [hasStates |-> TRUE, states |-> states])

\* getFilterValues of the App build kept in utils.js: no checked state box
\* means every state
SportsFilterStates(checked) ==
    IF Len(checked) = 0 THEN NE_STATE_KEYS ELSE checked

\* handleSearch of the App build kept in utils.js ("Sports Marketing Jobs"):
\* it hands searchAllCategories the checked categories and no states
HandleSearchSports(keywords, checked) ==
    /\ ~searching
    /\ IF keywords = "" \/ ~apiKey THEN UNCHANGED vars
       ELSE /\ filterStates' = SportsFilterStates(checked)
            /\ BeginSearch(keywords, [hasStates |-> FALSE, states |-> <<>>])

\* the answer to the pending request of query k arrives
Respond(k, a) ==
    /\ searching
    /\ promises[k].status = "pending"
    /\ LET p == FetchSettle(a)
       IN  /\ promises' = [promises EXCEPT ![k] = p]
           /\ cache' = IF p.status = "fulfilled"
                       THEN setSessionCache(cache, queries[k], p.value, now)
                       ELSE cache
    /\ UNCHANGED <<now, online, apiKey, rateLimit, requestLog, searching, queries,
                   batchStart, results, completed, progress, rawJobs,
                   uiState, uiMessage, checks, recorded,
                   retryVars, filterStates, planOptions, fetchLog,
                   compVars>>

\* handleSearch after its await, on the withRetry decision for res.  Which
\* listings Filters.applyFilters keeps depends on the filter boxes: of a
\* non-empty result it may keep some or none.
SearchEnds(res) ==
    LET dec == RetryDecision(res, attempt, maxRetries)
    IN  CASE dec.kind = "return" ->
               /\ rawJobs' = res.value
               /\ uiState' \in (IF res.value = <<>> THEN {"empty"}
                                ELSE {"results", "empty"})
               /\ uiMessage' = ""
          [] dec.kind = "throw" ->
               /\ rawJobs' = rawJobs
               /\ uiState' = IF res.error = RATE_LIMITED THEN "rate-limited"
                             ELSE "error"
               /\ uiMessage' = IF res.error = RATE_LIMITED THEN ""
                               ELSE res.error
          [] dec.kind = "wait" ->
               UNCHANGED <<rawJobs, uiState, uiMessage>>

\* Promise.allSettled of the running batch resolves: the results are pushed,
\* progress is reported, and the loop starts the next batch or ends, in which
\* case the results are collected and withRetry and handleSearch go on
BatchSettled ==
    /\ searching
    /\ AllSettled(promises, batchStart)
    /\ LET n == Len(queries)
           hi == BatchEnd(batchStart, n)
           res1 == results \o SubSeq(promises, batchStart, hi)
           done1 == NextCompleted(completed, batchStart, n)
           next == batchStart + concurrencyLimit
       IN  /\ results' = res1
           /\ completed' = done1
           /\ progress' = Append(progress, <<done1, n>>)
           /\ IF next <= n
              THEN LET st0 == [log |-> requestLog, cache |-> cache,
                               recorded |-> recorded, checks |-> <<>>,
                               fetched |-> <<>>]
                       started == StartQueries(st0, promises, queries, next,
                                               BatchEnd(next, n))
                   IN  /\ batchStart' = next
                       /\ promises' = started.ps
                       /\ requestLog' = started.st.log
                       /\ cache' = started.st.cache
                       /\ recorded' = started.st.recorded
                       /\ checks' = started.st.checks
                       /\ fetchLog' = started.st.fetched
                       /\ UNCHANGED <<searching, rawJobs, uiState, uiMessage,
                                      retryVars>>
              ELSE /\ searching' = FALSE
                   /\ FnSettles(SearchResult(res1))
                   /\ SearchEnds(SearchResult(res1))
                   /\ checks' = <<>>
                   /\ fetchLog' = <<>>
                   /\ UNCHANGED <<batchStart, promises, requestLog, cache,
                                  recorded>>
    /\ UNCHANGED <<now, online, apiKey, rateLimit, queries, filterStates,
                   planOptions, compVars>>

Next ==
    \/ Tick
    \/ SetOnline
    \/ SaveApiKey
    \/ CanMakeRequestCall
    \/ \E keywords \in KeywordInputs, states \in StateSelections :
          HandleSearch(keywords, states)
    \/ \E k \in DOMAIN promises :
          \E a \in SessionAnswers(queries[k]) : Respond(k, a)
    \/ BatchSettled

Spec == Init /\ [][Next]_vars

\* ---------------------------------------------------------------- SpecRun
\* one search of a fresh session whose key is saved, under the shipped
\* CONFIG.RATE_LIMIT, over every plan size up to two batches and every answer
\* of the API
InitRun ==
    /\ SearchIdle(TRUE, [maxRequests |-> ConfigMaxRequests,
                         windowMs |-> ConfigWindowMs])
    /\ RetryIdle
    /\ CompIdle

RunSearch ==
    /\ uiState = "initial"
    /\ \E states \in RunSelections : HandleSearch("engineer", states)

NextRun ==
    \/ RunSearch
    \/ \E k \in DOMAIN promises : \E a \in Answers(queries[k]) : Respond(k, a)
    \/ BatchSettled

SpecRun == InitRun /\ [][NextRun]_vars

\* -------------------------------------------------------------- SpecFetch
\* JobsAPI.searchJobs called on its own, with or without a saved key, online
\* or offline, as time passes; calls may overlap
SearchJobs(q) ==
    /\ Len(promises) < MaxFetches
    /\ LET st0 == [log |-> requestLog, cache |-> cache, recorded |-> recorded,
                   checks |-> checks, fetched |-> fetchLog]
           r == FetchStart(st0, q, now, apiKey, online)
       IN  /\ queries' = Append(queries, q)
           /\ promises' = Append(promises, r.p)
           /\ requestLog' = r.st.log
           /\ cache' = r.st.cache
           /\ recorded' = r.st.recorded
           /\ checks' = r.st.checks
           /\ fetchLog' = r.st.fetched
    /\ UNCHANGED <<now, online, apiKey, rateLimit, searching, batchStart,
                   results, completed, progress, rawJobs, uiState, uiMessage,
                   retryVars, filterStates, planOptions, compVars>>

\* the answer to the pending request of call k arrives
SearchJobsSettles(k, a) ==
    /\ promises[k].status = "pending"
    /\ LET p == FetchSettle(a)
       IN  /\ promises' = [promises EXCEPT ![k] = p]
           /\ cache' = IF p.status = "fulfilled"
                       THEN setSessionCache(cache, queries[k], p.value, now)
                       ELSE cache
    /\ UNCHANGED <<now, online, apiKey, rateLimit, requestLog, searching,
                   queries, batchStart, results, completed, progress, rawJobs,
                   uiState, uiMessage, checks, recorded, retryVars,
                   filterStates, planOptions, fetchLog, compVars>>

NextFetch ==
    \/ Tick
    \/ SetOnline
    \/ SaveApiKey
    \/ SearchJobs(RemoteQuery("engineer"))
    \/ \E k \in DOMAIN promises :
          \E a \in SessionAnswers(queries[k]) : SearchJobsSettles(k, a)

SpecFetch == Init /\ [][NextFetch]_vars

\* -------------------------------------------------------------- SpecRetry
\* withRetry(fn, maxRetries) around an fn that settles in any way
FnValues == {<<>>, <<1>>}
FnErrors == {RATE_LIMITED, INVALID_KEY, FETCH_FAILED}
FnOutcomes ==
    {[ok |-> TRUE, value |-> v, error |-> ""] : v \in FnValues}
    \cup {[ok |-> FALSE, value |-> <<>>, error |-> e] : e \in FnErrors}

InitRetry ==
    /\ SearchIdle(TRUE, [maxRequests |-> ConfigMaxRequests,
                         windowMs |-> ConfigWindowMs])
    /\ rpc = "calling"
    /\ outcome = NotSettled
    /\ maxRetries \in 0..MaxRetriesArg
    /\ attempt = 0
    /\ lastError = ""
    /\ calls = <<>>
    /\ delays = <<>>
    /\ timer = -1
    /\ elapsed = <<>>
    /\ waited = 0
    /\ CompIdle

\* the awaited fn() settles
FnCall ==
    /\ rpc = "calling"
    /\ \E res \in FnOutcomes : FnSettles(res)
    /\ UNCHANGED <<searchVars, compVars>>

\* time passes while the backoff setTimeout is pending
TimePasses ==
    /\ rpc = "waiting"
    /\ timer > 0
    /\ timer' = timer - BackoffUnitMs
    /\ waited' = waited + BackoffUnitMs
    /\ UNCHANGED <<rpc, outcome, maxRetries, attempt, lastError, calls,
                   delays, elapsed, searchVars, compVars>>

\* the setTimeout fires: attempt++ and fn() is called again
TimerFires ==
    /\ rpc = "waiting"
    /\ timer <= 0
    /\ rpc' = "calling"
    /\ attempt' = attempt + 1
    /\ elapsed' = Append(elapsed, waited)
    /\ timer' = -1
    /\ waited' = 0
    /\ UNCHANGED <<outcome, maxRetries, lastError, calls, delays, searchVars,
                   compVars>>

NextRetry == FnCall \/ TimePasses \/ TimerFires

SpecRetry == InitRetry /\ [][NextRetry]_vars

\* --------------------------------------------------------------- SpecPlan
\* one search of a fresh session whose key is saved, started by the
\* handleSearch of either App build with any of the state boxes checked (in
\* document order); every request is answered with one listing
CheckedStates ==
    {SelectSeq(NE_STATE_KEYS, LAMBDA c : c \in boxes) :
        boxes \in SUBSET NE_STATE_CODES}

PlanAnswers(q) ==
    {[status |-> 200, json |-> TRUE, body |-> ListingsOf(q, <<1>>)]}

PlanSearch ==
    /\ uiState = "initial"
    /\ \E checked \in CheckedStates : HandleSearch("engineer", checked)

PlanSearchSports ==
    /\ uiState = "initial"
    /\ \E checked \in CheckedStates : HandleSearchSports("engineer", checked)

NextPlan ==
    \/ PlanSearch
    \/ PlanSearchSports
    \/ \E k \in DOMAIN promises :
          \E a \in PlanAnswers(queries[k]) : Respond(k, a)
    \/ BatchSettled

SpecPlan == InitRun /\ [][NextPlan]_vars

\* -------------------------------------------------------------- SpecCache
\* Utils.setSessionCache and Utils.getSessionCache called directly on two
\* request signatures while the clock runs.  Values are parsed API answers,
\* which JSON.stringify and JSON.parse hand back unchanged.
ProbeKeys == Range(buildSearchQueries("engineer", <<"CT">>))

CacheValues(key) == {ListingsOf(key, ids) : ids \in JobIdLists}

InitCache ==
    /\ SearchIdle(TRUE, [maxRequests |-> MaxRequests, windowMs |-> WindowMs])
    /\ RetryIdle
    /\ CompIdle

\* Utils.setSessionCache(key, data)
CacheSet(key, data) ==
    /\ cache' = setSessionCache(cache, key, data, now)
    /\ inserted' = [inserted EXCEPT
                       ![key] = [at |-> now, data |-> data, expired |-> FALSE]]
    /\ UNCHANGED <<lastGet, now, online, apiKey, rateLimit, requestLog,
                   searching, queries, batchStart, promises, results,
                   completed, progress, rawJobs, uiState, uiMessage, checks,
                   recorded, filterStates, planOptions, fetchLog, retryVars,
                   filterVars, alertVars, appVars>>

\* Utils.getSessionCache(key).  The history keeps what the call was given,
\* what it answered, what was known of the key before it, and whether the
\* item is in sessionStorage after it.
CacheGet(key) ==
    LET got == getSessionCache(cache, key, now)
    IN  /\ cache' = got.cache
        /\ lastGet' = <<[key |-> key, at |-> now, hit |-> got.hit,
                         value |-> got.value, last |-> inserted[key],
                         present |-> got.cache[key].present]>>
        /\ inserted' = [inserted EXCEPT
                           ![key].expired =
                               @ \/ (inserted[key].at >= 0 /\ ~got.hit)]
        /\ UNCHANGED <<now, online, apiKey, rateLimit, requestLog,
                       searching, queries, batchStart, promises, results,
                       completed, progress, rawJobs, uiState, uiMessage,
                       checks, recorded, filterStates, planOptions, fetchLog, retryVars,
                   filterVars, alertVars, appVars>>

NextCache ==
    \/ Tick
    \/ \E key \in ProbeKeys : \E data \in CacheValues(key) : CacheSet(key, data)
    \/ \E key \in ProbeKeys : CacheGet(key)

SpecCache == InitCache /\ [][NextCache]_vars

\* ----------------------------------------------------------- SpecClassify
\* Filters.isQualifyingJob called on one listing
InitClassify ==
    /\ SearchIdle(TRUE, [maxRequests |-> ConfigMaxRequests,
                         windowMs |-> ConfigWindowMs])
    /\ RetryIdle
    /\ CacheIdle
    /\ \E job \in ClassifyListings : jobList = <<job>>
    /\ filterOptions = <<>>
    /\ returned = <<>>
    /\ AlertsIdle
    /\ AppIdle

CallIsQualifyingJob ==
    /\ returned = <<>>
    /\ returned' = <<isQualifyingJob(jobList[1])>>
    /\ UNCHANGED <<jobList, filterOptions, searchVars, retryVars, cacheVars,
                   alertVars, appVars>>

NextClassify == CallIsQualifyingJob

SpecClassify == InitClassify /\ [][NextClassify]_vars

\* -------------------------------------------------------------- SpecScore
\* Filters.scoreJobRelevance called on one listing, a keyword string and a
\* theme list
InitScore ==
    /\ SearchIdle(TRUE, [maxRequests |-> ConfigMaxRequests,
                         windowMs |-> ConfigWindowMs])
    /\ RetryIdle
    /\ CacheIdle
    /\ \E job \in ScoreListings : jobList = <<job>>
    /\ \E keywords \in KeywordStrings, themes \in ThemeLists :
          filterOptions = [keywords |-> keywords, themes |-> themes]
    /\ returned = <<>>
    /\ AlertsIdle
    /\ AppIdle

CallScoreJobRelevance ==
    /\ returned = <<>>
    /\ returned' = <<scoreJobRelevance(jobList[1], filterOptions.keywords,
                                       filterOptions.themes)>>
    /\ UNCHANGED <<jobList, filterOptions, searchVars, retryVars, cacheVars,
                   alertVars, appVars>>

NextScore == CallScoreJobRelevance

SpecScore == InitScore /\ [][NextScore]_vars

\* ------------------------------------------------------------- SpecFilter
\* Filters.applyFilters called on one or two listings and the filter values
InitFilter ==
    /\ SearchIdle(TRUE, [maxRequests |-> ConfigMaxRequests,
                         windowMs |-> ConfigWindowMs])
    /\ RetryIdle
    /\ CacheIdle
    /\ \E job \in FilterListings :
          jobList \in {<<job>>, <<job, OtherListing>>, <<OtherListing, job>>}
    /\ filterOptions \in FilterOptionSets
    /\ returned = <<>>
    /\ AlertsIdle
    /\ AppIdle

CallApplyFilters ==
    /\ returned = <<>>
    /\ returned' = <<applyFilters(jobList, filterOptions)>>
    /\ UNCHANGED <<jobList, filterOptions, searchVars, retryVars, cacheVars,
                   alertVars, appVars>>

NextFilter == CallApplyFilters

SpecFilter == InitFilter /\ [][NextFilter]_vars

\* ------------------------------------------------------------- SpecAlerts
\* Alerts.checkAlerts run on the raw results of one search after the other.
\* The history keeps, for each check, the listings, the seen list before and
\* after, what the check returned, and the order in which identifiers
\* entered the seen list (counted independently of the list).
InitAlerts ==
    /\ SearchIdle(TRUE, [maxRequests |-> ConfigMaxRequests,
                         windowMs |-> ConfigWindowMs])
    /\ RetryIdle
    /\ CacheIdle
    /\ FiltersIdle
    /\ AppIdle
    /\ alerts \in StoredAlerts
    /\ seenJobs = <<>>
    /\ checkLog = <<>>
    /\ enteredAt = [id \in {job.job_id : job \in AlertListings} |-> 0]

\* history: the identifiers of ids that are not in the seen list get the
\* next entry numbers, in the order of ids
RECURSIVE Enter(_, _, _)
Enter(stamps, ids, present) ==
    IF ids = <<>> THEN stamps
    ELSE IF Head(ids) \in present THEN Enter(stamps, Tail(ids), present)
    ELSE LET used == {stamps[i] : i \in DOMAIN stamps}
             next == 1 + CHOOSE m \in used : \A v \in used : v <= m
         IN  Enter([stamps EXCEPT ![Head(ids)] = next], Tail(ids),
                   present \cup {Head(ids)})

CheckAlerts(list) ==
    /\ Len(checkLog) < MaxChecks
    /\ LET out == checkAlerts(list, alerts, seenJobs)
           stamps == Enter(enteredAt, [k \in DOMAIN list |-> list[k].job_id],
                           Range(seenJobs))
       IN  /\ alerts' = out.alerts
           /\ seenJobs' = out.seen
           /\ enteredAt' = stamps
           /\ checkLog' = Append(checkLog,
                                 [jobs |-> list, alerts |-> alerts,
                                  before |-> seenJobs,
                                  after |-> out.seen,
                                  results |-> out.results,
                                  notified |-> out.notified,
                                  enteredAt |-> stamps])
    /\ UNCHANGED <<searchVars, retryVars, cacheVars, filterVars, appVars>>

NextAlerts == \E list \in AlertBatches : CheckAlerts(list)

SpecAlerts == InitAlerts /\ [][NextAlerts]_vars

\* --------------------------------------------------------- SpecAlertEdits
\* checkAlerts run after searches while the user, who starts without alerts,
\* creates an alert and edits it
InitAlertEdits ==
    /\ SearchIdle(TRUE, [maxRequests |-> ConfigMaxRequests,
                         windowMs |-> ConfigWindowMs])
    /\ RetryIdle
    /\ CacheIdle
    /\ FiltersIdle
    /\ AppIdle
    /\ alerts = <<>>
    /\ seenJobs = <<>>
    /\ checkLog = <<>>
    /\ enteredAt = [id \in {job.job_id : job \in AlertListings} |-> 0]

\* handleFormSubmit without editingId
CreateAlert(form) ==
    /\ alerts = <<>>
    /\ alerts' = createAlert(alerts, form)
    /\ UNCHANGED <<seenJobs, checkLog, enteredAt, searchVars, retryVars,
                   cacheVars, filterVars, appVars>>

\* handleFormSubmit with the editingId of the alert at index
UpdateAlert(index, form) ==
    /\ index \in DOMAIN alerts
    /\ alerts[index].keywords # form.keywords
    /\ alerts' = updateAlert(alerts, index,
                             [keywords |-> form.keywords,
                              preferences |->
                                 [categories |-> form.categories,
                                  minSalary |-> form.minSalary]])
    /\ UNCHANGED <<seenJobs, checkLog, enteredAt, searchVars, retryVars,
                   cacheVars, filterVars, appVars>>

NextAlertEdits ==
    \/ \E list \in {b \in AlertBatches :
                        {b[k].job_id : k \in DOMAIN b} \in {{}, {1}, {3, 4}}} :
          CheckAlerts(list)
    \/ \E form \in {BackendForm, RemoteEngineerForm} : CreateAlert(form)
    \/ \E form \in {BackendForm, RemoteEngineerForm} : UpdateAlert(1, form)

SpecAlertEdits == InitAlertEdits /\ [][NextAlertEdits]_vars

\* ------------------------------------------------------------- SpecOverlap
\* App.handleSearch called again while earlier searches are in flight.  A
\* flight is one handleSearch invocation: its keywords, its plan, the loop
\* variable, its promises, the results pushed so far, the order its promises
\* settled in (history), and once it has ended the list it got.
\* searchAllCategories absorbs every failure, so withRetry returns its first
\* attempt.
InitOverlap ==
    /\ SearchIdle(TRUE, [maxRequests |-> MaxRequests, windowMs |-> WindowMs])
    /\ RetryIdle
    /\ CompIdle

SettledIn(ps, order, lo, hi) ==
    order \o SelectSeq([i \in 1..(hi - lo + 1) |-> lo + i - 1],
                       LAMBDA k : Settled(ps[k]))

\* handleSearch up to its await
HandleSearchOverlapping(keywords, states) ==
    /\ Len(flights) < MaxFlights
    /\ keywords # "" /\ apiKey
    /\ LET plan == buildSearchQueries(keywords, states)
           hi == BatchEnd(1, Len(plan))
           st0 == [log |-> requestLog, cache |-> cache,
                   recorded |-> recorded, checks |-> <<>>, fetched |-> <<>>]
           started == StartQueries(st0, [k \in DOMAIN plan |-> NotStarted],
                                   plan, 1, hi)
       IN  /\ currentKeywords' = keywords
           /\ uiState' = "loading"
           /\ uiMessage' = ""
           /\ flights' = Append(flights,
                  [keywords |-> keywords, queries |-> plan, batchStart |-> 1,
                   promises |-> started.ps, results |-> <<>>,
                   order |-> SettledIn(started.ps, <<>>, 1, hi),
                   done |-> FALSE, value |-> <<>>])
           /\ requestLog' = started.st.log
           /\ cache' = started.st.cache
           /\ recorded' = started.st.recorded
           /\ checks' = started.st.checks
           /\ fetchLog' = started.st.fetched
    /\ UNCHANGED <<now, online, apiKey, rateLimit, searching, queries,
                   batchStart, promises, results, completed, progress,
                   rawJobs, retryVars, filterStates, planOptions, cacheVars,
                   filterVars, alertVars, savedVars, filteredJobs>>

\* the answer to the pending request of query k of flight f arrives
FlightResponds(f, k, a) ==
    /\ flights[f].promises[k].status = "pending"
    /\ LET p == FetchSettle(a)
       IN  /\ flights' = [flights EXCEPT ![f].promises[k] = p,
                                         ![f].order = Append(@, k)]
           /\ cache' = IF p.status = "fulfilled"
                       THEN setSessionCache(cache, flights[f].queries[k],
                                            p.value, now)
                       ELSE cache
    /\ UNCHANGED <<now, online, apiKey, rateLimit, requestLog, searching,
                   queries, batchStart, promises, results, completed,
                   progress, rawJobs, uiState, uiMessage, checks, recorded,
                   retryVars, filterStates, planOptions, fetchLog, cacheVars,
                   filterVars, alertVars, savedVars, currentKeywords,
                   filteredJobs>>

\* Promise.allSettled of the running batch of flight f resolves: the next
\* batch starts, or searchAllCategories returns and handleSearch goes on
\* after its await: it stores the raw results, filters them (the filter boxes
\* decide what is kept), shows the state and checks the alerts
FlightBatchSettled(f) ==
    LET fl == flights[f]
        n == Len(fl.queries)
        hi == BatchEnd(fl.batchStart, n)
        res1 == fl.results \o BatchResults(fl.promises, fl.order,
                                           fl.batchStart, hi)
        next == fl.batchStart + concurrencyLimit
    IN
    /\ ~fl.done
    /\ AllSettled(fl.promises, fl.batchStart)
    /\ IF next <= n
       THEN LET st0 == [log |-> requestLog, cache |-> cache,
                        recorded |-> recorded, checks |-> <<>>,
                        fetched |-> <<>>]
                started == StartQueries(st0, fl.promises, fl.queries, next,
                                        BatchEnd(next, n))
            IN  /\ flights' = [flights EXCEPT ![f] =
                       [fl EXCEPT !.results = res1, !.batchStart = next,
                                  !.promises = started.ps,
                                  !.order = SettledIn(started.ps, @, next,
                                                      BatchEnd(next, n))]]
                /\ requestLog' = started.st.log
                /\ cache' = started.st.cache
                /\ recorded' = started.st.recorded
                /\ checks' = started.st.checks
                /\ fetchLog' = started.st.fetched
                /\ UNCHANGED <<rawJobs, filteredJobs, uiState, uiMessage,
                               alertVars>>
       ELSE LET value == SearchResult(res1).value
                out == checkAlerts(value, alerts, seenJobs)
            IN  /\ flights' = [flights EXCEPT ![f] =
                       [fl EXCEPT !.results = res1, !.done = TRUE,
                                  !.value = value]]
                /\ rawJobs' = value
                /\ filteredJobs' \in {<<>>, value}
                /\ uiState' = IF filteredJobs' = <<>> THEN "empty"
                              ELSE "results"
                /\ uiMessage' = ""
                /\ alerts' = out.alerts
                /\ seenJobs' = out.seen
                /\ UNCHANGED <<requestLog, cache, recorded, checks, fetchLog,
                               checkLog, enteredAt>>
    /\ UNCHANGED <<now, online, apiKey, rateLimit, searching, queries,
                   batchStart, promises, results, completed, progress,
                   retryVars, filterStates, planOptions, cacheVars,
                   filterVars, savedVars, currentKeywords>>

\* time passes until every recorded request has left the limiter's window
WindowPasses ==
    /\ now + rateLimit.windowMs + 1 <= MaxTime
    /\ now' = now + rateLimit.windowMs + 1
    /\ recorded' = SelectSeq(recorded,
                             LAMBDA ts : ts >= now' - rateLimit.windowMs)
    /\ UNCHANGED <<online, apiKey, rateLimit, requestLog, cache, searching,
                   queries, batchStart, promises, results, completed,
                   progress, rawJobs, uiState, uiMessage, checks, retryVars,
                   filterStates, planOptions, fetchLog, compVars>>

\* what the user has typed when search n is started: the keywords alternate
TypedKeywords(n) == IF n % 2 = 1 THEN "engineer" ELSE "nurse"

\* the answers the searches of SpecOverlap get
FlightAnswers(q) ==
    {[status |-> 200, json |-> TRUE, body |-> ListingsOf(q, <<1>>)],
     [status |-> 200, json |-> TRUE, body |-> ListingsOf(q, <<2, 1>>)]}

NextOverlap ==
    \/ WindowPasses
    \/ HandleSearchOverlapping(TypedKeywords(Len(flights) + 1), <<"CT">>)
    \/ \E f \in DOMAIN flights : \E k \in DOMAIN flights[f].promises :
          \E a \in FlightAnswers(flights[f].queries[k]) :
             FlightResponds(f, k, a)
    \/ \E f \in DOMAIN flights : FlightBatchSettled(f)

SpecOverlap == InitOverlap /\ [][NextOverlap]_vars

\* --------------------------------------------------------------- SpecSaved
\* the saved-jobs list under its five operations, with the search results
\* and the detail modal changing in between, time passing and storage
\* writes that may fail
InitSaved ==
    /\ SearchIdle(TRUE, [maxRequests |-> MaxRequests, windowMs |-> WindowMs])
    /\ RetryIdle
    /\ CompIdle

\* the call is noted and what it handed to saveToDisk is written, or not
SavedCall(op, arg, notes, out, writes) ==
    /\ savedJobs' = saveToDisk(savedJobs, out.jobs, writes)
    /\ savedOp' = <<[op |-> op, arg |-> arg, notes |-> notes,
                     before |-> savedJobs, ret |-> out.ret,
                     writes |-> writes]>>
    /\ UNCHANGED <<detailJob, searchVars, retryVars, cacheVars, filterVars,
                   alertVars, overlapVars>>

SaveJob(jobData, writes) ==
    SavedCall("saveJob", jobData.job_id, "",
              saveJob(savedJobs, jobData, now), writes)

RemoveJob(jobId, writes) ==
    SavedCall("removeJob", jobId, "", removeJob(savedJobs, jobId), writes)

ToggleSave(jobId, writes) ==
    SavedCall("toggleSave", jobId, "",
              toggleSave(savedJobs, jobId, rawJobs, detailJob, now), writes)

UpdateNotes(jobId, notes, writes) ==
    SavedCall("updateNotes", jobId, notes,
              updateNotes(savedJobs, jobId, notes), writes)

ClearAll(writes) ==
    SavedCall("clearAll", 0, "", clearAll(savedJobs), writes)

\* UI.showJobDetail(job)
ShowJobDetail(job) ==
    /\ detailJob' = <<job>>
    /\ UNCHANGED <<savedJobs, savedOp, searchVars, retryVars, cacheVars,
                   filterVars, alertVars, overlapVars>>

\* handleSearch stores the raw results of a search that returned
ResultsStored(list) ==
    /\ rawJobs' = list
    /\ UNCHANGED <<now, online, apiKey, rateLimit, requestLog, cache, searching,
                   queries, batchStart, promises, results, completed, progress,
                   uiState, uiMessage, checks, recorded, filterStates,
                   planOptions, fetchLog, retryVars, compVars>>

\* time passes between two calls
SavedTick ==
    /\ now < MaxSavedTime
    /\ now' = now + 1
    /\ UNCHANGED <<online, apiKey, rateLimit, requestLog, cache, searching,
                   queries, batchStart, promises, results, completed, progress,
                   rawJobs, uiState, uiMessage, checks, recorded, filterStates,
                   planOptions, fetchLog, retryVars, compVars>>

\* the listings are a job_id as a search returned it and as the detail
\* modal holds it; the search results hold listing 1 or nothing
NextSaved ==
    LET SavedListing(id, src) == [job_id |-> id, src |-> src]
        SavedIds == {1, 2}
        SavedResults == {<<>>, <<SavedListing(1, "search")>>}
        NoteTexts == {"", "call back"}
    IN
    \/ SavedTick
    \/ \E list \in SavedResults : ResultsStored(list)
    \/ \E id \in SavedIds : ShowJobDetail(SavedListing(id, "detail"))
    \/ \E id \in SavedIds, src \in {"search", "detail"}, writes \in BOOLEAN :
          SaveJob(SavedListing(id, src), writes)
    \/ \E id \in SavedIds, writes \in BOOLEAN : RemoveJob(id, writes)
    \/ \E id \in SavedIds, writes \in BOOLEAN : ToggleSave(id, writes)
    \/ \E id \in SavedIds, notes \in NoteTexts, writes \in BOOLEAN :
          UpdateNotes(id, notes, writes)
    \/ \E writes \in BOOLEAN : ClearAll(writes)

SpecSaved == InitSaved /\ [][NextSaved]_vars

\* ================================================================= claims
\* a search has run to its end: the loop is over and withRetry has decided
Finished == ~searching /\ rpc \in {"returned", "thrown", "waiting"}

BatchOf(k) == (k - 1) \div concurrencyLimit

CeilDiv(a, b) == (a + b - 1) \div b

RateLimitedAt(res, k) ==
    res[k].status = "rejected" /\ res[k].reason = RATE_LIMITED

\* C1: every canMakeRequest check answers false exactly when maxRequests
\* recorded calls have timestamps inside the trailing window [now - windowMs,
\* now]: it stays false while the oldest of them is not older than
\* now - windowMs, and is true at the first check after that.
C1_LimiterWindow ==
    \A k \in DOMAIN checks :
        checks[k].allowed = (checks[k].inWindow < rateLimit.maxRequests)

\* one handler, two checks: the first finds a full log whose oldest entry has
\* aged out and allows the request; the second finds the window full again
\* and denies it
C1_Witness ==
    \E j, k \in DOMAIN checks :
        /\ j < k
        /\ checks[j].allowed
        /\ checks[j].held = rateLimit.maxRequests
        /\ ~checks[k].allowed
        /\ checks[k].inWindow = rateLimit.maxRequests

\* C2: the cache is consulted before the rate limiter, so a request that has
\* an unexpired cache entry is never denied by the limiter.
C2_CacheBeforeLimiter ==
    \A k \in DOMAIN promises :
        promises[k].fresh => promises[k].via # "limiter"

\* C3: when a query of the plan was denied by the limiter or answered 429,
\* the search fails with RATE_LIMITED and the UI shows the rate-limited state.
C3_RateLimitPropagates ==
    (Finished /\ \E k \in DOMAIN results : RateLimitedAt(results, k))
        => /\ rpc = "thrown"
           /\ outcome.error = RATE_LIMITED
           /\ uiState = "rate-limited"

\* C4: when fn fails with RATE_LIMITED on any attempt, withRetry throws that
\* error at once: it is the last invocation of fn, no backoff delay is asked
\* for after it, and the error thrown is RATE_LIMITED.
C4_RateLimitedNotRetried ==
    \A k \in DOMAIN calls :
        (~calls[k].ok /\ calls[k].error = RATE_LIMITED)
            => /\ k = Len(calls)
               /\ rpc = "thrown"
               /\ outcome.state = "thrown"
               /\ outcome.error = RATE_LIMITED
               /\ Len(delays) = k - 1
               /\ timer = -1

\* a second attempt, made after one backoff, fails with RATE_LIMITED while
\* retries are left
C4_Witness ==
    /\ Len(calls) = 2
    /\ calls[2].error = RATE_LIMITED
    /\ maxRetries = DefaultMaxRetries
    /\ rpc = "thrown"

\* C5: with maxRetries = 2, fn is invoked at most 3 times; the k-th failure
\* (k = 1, 2) that is not RATE_LIMITED is followed by a wait of k x 1000 ms
\* and only then by the next attempt; the first success is returned and is
\* the last invocation; when all 3 attempts fail the last error is thrown
\* with no wait after the third failure.
C5_RetrySchedule ==
    maxRetries = DefaultMaxRetries =>
        /\ Len(calls) <= DefaultMaxRetries + 1
        /\ Len(delays) <= DefaultMaxRetries
        /\ \A k \in DOMAIN delays :
              /\ delays[k] = k * BackoffUnitMs
              /\ ~calls[k].ok /\ calls[k].error # RATE_LIMITED
        /\ \A k \in DOMAIN elapsed : elapsed[k] = k * BackoffUnitMs
        /\ \A k \in DOMAIN calls :
              /\ k > 1 => k - 1 \in DOMAIN elapsed
              /\ calls[k].ok =>
                    /\ k = Len(calls)
                    /\ rpc = "returned"
                    /\ outcome.state = "returned"
                    /\ outcome.value = calls[k].value
              /\ (~calls[k].ok /\ calls[k].error # RATE_LIMITED
                    /\ k <= DefaultMaxRetries) => k \in DOMAIN delays
        /\ Len(calls) = DefaultMaxRetries + 1 /\ ~calls[Len(calls)].ok
              => /\ rpc = "thrown"
                 /\ outcome.state = "thrown"
                 /\ outcome.error = calls[Len(calls)].error
                 /\ Len(delays) = DefaultMaxRetries
                 /\ timer = -1

\* three failed attempts, the last with another error than the first two
C5_Witness ==
    /\ maxRetries = DefaultMaxRetries
    /\ Len(calls) = 3
    /\ calls[1].error = FETCH_FAILED
    /\ calls[3].error = INVALID_KEY
    /\ rpc = "thrown"
    /\ elapsed = <<1000, 2000>>

\* C6: when the API answers a query with 401 or 403, the search fails, the
\* caller sees the invalid-key message, and the plan was run only once.
C6_InvalidKeySurfaces ==
    (Finished /\ \E k \in DOMAIN results : results[k].reason = INVALID_KEY)
        => /\ rpc = "thrown"
           /\ outcome.error = INVALID_KEY
           /\ uiState = "error"
           /\ uiMessage = INVALID_KEY
           /\ Len(calls) = 1

\* C7: the queries are started batch by batch, at most concurrencyLimit at a
\* time: a query of a later batch is started only when every query of every
\* earlier batch has settled, and at most 3 are outstanding.
C7_BatchesInOrder ==
    /\ Cardinality({k \in DOMAIN promises : promises[k].status = "pending"})
          <= concurrencyLimit
    /\ \A j, k \in DOMAIN promises :
          (BatchOf(j) < BatchOf(k) /\ promises[k].status # "notstarted")
              => Settled(promises[j])

\* the second batch is in flight after a first batch of three in which a
\* query was rejected
C7_Witness ==
    /\ Len(promises) = 5
    /\ promises[4].status = "pending"
    /\ promises[5].status = "fulfilled"
    /\ promises[2].status = "rejected"

\* C8: a rejected query aborts nothing: every query of the plan has run and
\* settled, the search returns, no listing comes from a rejected query, and
\* every listing id of every fulfilled query is in the returned list.
C8_FailuresAbsorbed ==
    (Finished /\ \E k \in DOMAIN results : results[k].status = "rejected")
        => /\ rpc = "returned"
           /\ outcome.state = "returned"
           /\ outcome.value = rawJobs
           /\ uiState \in {"results", "empty"}
           /\ Len(results) = Len(queries)
           /\ \A k \in DOMAIN promises : Settled(promises[k])
           /\ \A k \in DOMAIN results :
                 \A job \in Range(DataOf(results[k])) :
                     \E a \in DOMAIN rawJobs :
                         rawJobs[a].job_id = job.job_id
           /\ \A a \in DOMAIN rawJobs :
                 \E k \in DOMAIN results :
                     /\ results[k].status = "fulfilled"
                     /\ rawJobs[a] \in Range(DataOf(results[k]))

\* a plan of two batches with a rejection in each and listings from the rest
C8_Witness ==
    /\ Finished
    /\ Len(results) = 5
    /\ results[1].status = "rejected" /\ results[1].reason = FETCH_FAILED
    /\ results[5].status = "rejected" /\ results[5].reason = BAD_JSON
    /\ results[2].status = "rejected" /\ results[2].reason = REQUEST_FAILED
    /\ Len(rawJobs) = 2

\* C9: onProgress is called once per settled batch, with total = the plan
\* length and a completed count that strictly increases, never exceeds total
\* and is total on the last of the ceil(total / 3) calls.
C9_Progress ==
    /\ \A k \in DOMAIN progress :
          /\ progress[k][2] = Len(queries)
          /\ progress[k][1] <= Len(queries)
          /\ k > 1 => progress[k - 1][1] < progress[k][1]
    /\ searching => Len(progress) = BatchOf(batchStart)
    /\ Finished =>
          /\ Len(progress) = CeilDiv(Len(queries), concurrencyLimit)
          /\ progress[Len(progress)][1] = Len(queries)

\* a plan of 4 queries has reported (3, 4) and then (4, 4)
C9_Witness ==
    /\ Finished
    /\ progress = << <<3, 4>>, <<4, 4>> >>

\* C10: the returned list holds each job_id once, holds every job_id of every
\* fulfilled query's data, and for a job_id that queries of different batches
\* returned it holds the record of the earliest batch.
QueryIndex(src) == CHOOSE k \in DOMAIN queries : queries[k].query = src

C10_Dedupe ==
    (Finished /\ rpc = "returned") =>
        /\ \A a, b \in DOMAIN rawJobs :
              a # b => rawJobs[a].job_id # rawJobs[b].job_id
        /\ \A k \in DOMAIN results :
              \A job \in Range(DataOf(results[k])) :
                  \E a \in DOMAIN rawJobs : rawJobs[a].job_id = job.job_id
        /\ \A a \in DOMAIN rawJobs :
              \A k \in DOMAIN results :
                  (\E job \in Range(DataOf(results[k])) :
                       job.job_id = rawJobs[a].job_id)
                      => BatchOf(QueryIndex(rawJobs[a].src)) <= BatchOf(k)

\* job 1 came from a query of the first batch and from one of the second,
\* job 2 only from the second
C10_Witness ==
    /\ Finished
    /\ Len(results) = 4
    /\ results[2].status = "fulfilled" /\ results[2].value.hasData
    /\ results[4].status = "fulfilled" /\ results[4].value.hasData
    /\ Len(results[4].value.data) = 2
    /\ results[1].status = "rejected" /\ results[3].status = "rejected"
    /\ Len(rawJobs) = 2
    /\ rawJobs[1].src = queries[2].query
    /\ rawJobs[2].src = queries[4].query

\* C11: getSessionCache(key) returns the stored value exactly when an entry
\* was set for key and no more than CACHE_DURATION_MS have passed since it was
\* inserted; a get on an older entry removes it and returns absent, and so
\* does every later get for that key until the next set.
C11_CacheExpiry ==
    \A k \in DOMAIN lastGet :
        LET g == lastGet[k]
            live == g.last.at >= 0 /\ g.at - g.last.at <= CacheDurationMs
        IN  /\ g.hit = live
            /\ g.hit => g.value = g.last.data
            /\ ~g.hit => ~g.present
            /\ g.last.expired => ~g.hit

\* a get on a key whose entry an earlier get found too old and removed, with
\* no set in between
C11_Witness ==
    \E k \in DOMAIN lastGet :
        /\ lastGet[k].last.expired
        /\ ~lastGet[k].hit
        /\ ~lastGet[k].present

\* C12: buildSearchQueries(keywords, {states: R}) returns exactly 1 + |R|
\* query specs for every list R of selected regions, and the first of them is
\* the remote variant: the query "<keywords> remote" with remoteOnly set.
C12_PlanSize ==
    \A k \in DOMAIN planOptions :
        planOptions[k].hasStates =>
            /\ Len(queries) = 1 + Len(planOptions[k].states)
            /\ queries[1] = [query |-> <<"engineer", "remote">>,
                             remoteOnly |-> TRUE]

\* the planner was given four selected regions and a search over its
\* five queries has run to its end
C12_Witness ==
    /\ planOptions # <<>>
    /\ planOptions[1].hasStates
    /\ Len(planOptions[1].states) = 4
    /\ Len(queries) = 5
    /\ Finished

\* C13: a search started through handleSearch with the regions CT and MA
\* selected makes the planner emit exactly three query specs, the remote
\* variant, Hartford CT and Boston MA: the regions selected in the filters
\* are the regions the plan fans out over.
C13_SelectedRegionsPlanned ==
    (planOptions # <<>> /\ filterStates = <<"CT", "MA">>) =>
        queries = <<[query |-> <<"engineer", "remote">>, remoteOnly |-> TRUE],
                    [query |-> <<"engineer", "in", "Hartford", "CT">>,
                     remoteOnly |-> FALSE],
                    [query |-> <<"engineer", "in", "Boston", "MA">>,
                     remoteOnly |-> FALSE]>>

\* C14: for every listing, whatever its remote flag, state, city, country,
\* title and description and whichever of them are missing, isQualifyingJob
\* returns qualifies = true and a category that is one of the five configured
\* categories.
C14_AlwaysQualifies ==
    \A k \in DOMAIN returned :
        /\ returned[k].qualifies = TRUE
        /\ returned[k].category \in
               {"remote", "remote-us", "hybrid-ne", "onsite-ne",
                "remote-ne-company"}

\* a listing all of whose fields are missing has been classified
C14_Witness ==
    /\ returned # <<>>
    /\ jobList[1] = Listing(1, "null", Null, Null, Null, Null, Null)
    /\ returned[1].category = "onsite-ne"

\* the inputs that name a home region, the home country, or a hybrid position
C15_HomeStates ==
    {<<"C", "T">>,
     <<" ", "m", "a", " ">>,
     <<"V", "e", "r", "m", "o", "n", "t">>,
     <<"n", "e", "w", " ", "h", "a", "m", "p", "s", "h", "i", "r", "e">>}

C15_HomeCities ==
    {<<"B", "o", "s", "t", "o", "n">>,
     <<" ", "h", "a", "r", "t", "f", "o", "r", "d", " ">>,
     <<"P", "o", "r", "t", "l", "a", "n", "d">>}

C15_Cascade(job) ==
    LET remote == job.job_is_remote = "true"
        home == job.job_state \in C15_HomeStates
                   \/ job.job_city \in C15_HomeCities
        us == job.job_country \in {<<"U", "S">>, <<"u", "s", " ">>}
        hybrid ==
            \/ job.job_title =
                  <<"H", "y", "b", "r", "i", "d", " ", "E", "n", "g", "i",
                    "n", "e", "e", "r">>
            \/ job.job_description =
                  <<"H", "Y", "B", "R", "I", "D", " ", "r", "o", "l", "e">>
    IN  IF remote /\ home THEN "remote-ne-company"
        ELSE IF remote /\ us THEN "remote-us"
        ELSE IF remote THEN "remote"
        ELSE IF hybrid THEN "hybrid-ne"
        ELSE "onsite-ne"

\* C15: isQualifyingJob follows the first-match cascade: remote and in a
\* home region gives remote-ne-company whatever the country, title and
\* description; else remote with country US gives remote-us; else remote
\* gives remote; else the listing is hybrid-ne when its title or description
\* contains "hybrid" in any case and onsite-ne otherwise, in a home region
\* or not.
C15_FirstMatch ==
    \A k \in DOMAIN returned : returned[k].category = C15_Cascade(jobList[k])

\* a remote listing of a home region whose country is US and whose title
\* says hybrid has been classified remote-ne-company
C15_Witness ==
    /\ returned # <<>>
    /\ jobList[1].job_is_remote = "true"
    /\ jobList[1].job_state = <<" ", "m", "a", " ">>
    /\ jobList[1].job_country = <<"U", "S">>
    /\ jobList[1].job_title # Null /\ jobList[1].job_title[1] = "H"
    /\ returned[1].category = "remote-ne-company"

\* C16: scoreJobRelevance returns an integer between 0 and 10 inclusive for
\* every listing, keyword string and theme list: the sum of the capped
\* buckets rounded to the nearest integer, a half going up, and capped at 10.
\* (In half points: an even number between 0 and 20, equal to the sum or, when
\* the sum ends in a half, to the sum plus a half.)
C16_ScoreRange ==
    \A k \in DOMAIN returned :
        LET sum == BucketSum(jobList[k], filterOptions.keywords,
                             filterOptions.themes)
            neutral == filterOptions.keywords = <<>>
                          /\ filterOptions.themes = <<>>
        IN  /\ returned[k] \in 0..20
            /\ returned[k] % 2 = 0
            /\ ~neutral =>
                  \/ sum % 2 = 0 /\ returned[k] = Min(20, sum)
                  \/ sum % 2 = 1 /\ returned[k] = Min(20, sum + 1)

\* a score whose buckets sum to 6.5 has been returned as 7
C16_Witness ==
    /\ returned = <<14>>
    /\ BucketSum(jobList[1], filterOptions.keywords, filterOptions.themes) = 13

\* the k-th listing handed to applyFilters is in the list it returned
Kept(k) ==
    \E i \in DOMAIN returned[1] :
        returned[1][i].job.job_id = jobList[k].job_id

\* a listing's best-known salary: max if there is one, else min, else 0
BestKnownSalary(job) ==
    CASE job.job_max_salary \notin {<<>>, <<0>>} -> job.job_max_salary[1]
      [] OTHER -> IF job.job_min_salary \notin {<<>>, <<0>>}
                  THEN job.job_min_salary[1]
                  ELSE 0

\* the category set, the region set and the salary floor of the call each
\* let the listing through
CategoryAdmits(job) ==
    \E i \in DOMAIN filterOptions.categories :
        filterOptions.categories[i] = isQualifyingJob(job).category

RegionAdmits(job) ==
    \/ isQualifyingJob(job).category \in {"remote", "remote-us"}
    \/ getJobNEState(job) = Null
    \/ \E i \in DOMAIN filterOptions.states :
          NE_STATES[filterOptions.states[i]].code = getJobNEState(job)

SalaryAdmits(job) ==
    \/ filterOptions.minSalary = 0
    \/ BestKnownSalary(job) = 0
    \/ BestKnownSalary(job) >= filterOptions.minSalary

\* C17: under a minimum salary floor > 0, with a listing's best-known salary
\* being max if present, else min, else 0: a listing whose best-known salary
\* is 0 is never excluded by the floor, one whose best-known salary equals
\* the floor is kept, and one whose best-known salary is positive and below
\* the floor is excluded.
C17_SalaryFloor ==
    \A n \in DOMAIN returned : \A k \in DOMAIN jobList :
        LET job == jobList[k]
            floor == filterOptions.minSalary
            best == BestKnownSalary(job)
            others == CategoryAdmits(job) /\ RegionAdmits(job)
        IN  floor > 0 =>
               /\ (best = 0 /\ others) => Kept(k)
               /\ (best = floor /\ others) => Kept(k)
               /\ (best > 0 /\ best < floor) => ~Kept(k)

\* under a floor of 50000 a listing whose only salary figure is a minimum of
\* 50000 is kept, next to a listing that pays more
C17_Witness ==
    /\ returned # <<>>
    /\ filterOptions.minSalary = 50000
    /\ Len(jobList) = 2
    /\ jobList[1].job_max_salary = <<>>
    /\ jobList[1].job_min_salary = <<50000>>
    /\ Kept(1)
    /\ Kept(2)

\* C18: a listing in one of the three regional categories whose resolved
\* home region is not in the requested region set is excluded; a listing in
\* a regional category with no resolved home region is never excluded by
\* the region set; a listing in category remote or remote-us is never
\* excluded by the region set.
C18_RegionRule ==
    \A n \in DOMAIN returned : \A k \in DOMAIN jobList :
        LET job == jobList[k]
            category == isQualifyingJob(job).category
            regional == category \in {"hybrid-ne", "onsite-ne",
                                      "remote-ne-company"}
            region == getJobNEState(job)
            requested ==
               {NE_STATES[c].code : c \in Range(filterOptions.states)}
            others == CategoryAdmits(job) /\ SalaryAdmits(job)
        IN  /\ (regional /\ region # Null /\ region \notin requested)
                  => ~Kept(k)
            /\ (regional /\ region = Null /\ others) => Kept(k)
            /\ (~regional /\ others) => Kept(k)

\* with CT and MA requested, an on-site listing in Vermont is left out and a
\* remote listing without a region is kept
C18_Witness ==
    /\ returned # <<>>
    /\ filterOptions.states = <<"CT", "MA">>
    /\ Len(jobList) = 2
    /\ isQualifyingJob(jobList[1]).category = "onsite-ne"
    /\ getJobNEState(jobList[1]) = <<"V", "T">>
    /\ ~Kept(1)
    /\ Kept(2)

\* the identifiers of the listings of a check
IdsOf(list) == {list[k].job_id : k \in DOMAIN list}

\* C19: after any sequence of alert checks the stored seen list holds at most
\* the limit (1000) of identifiers; when an addition would exceed it, the
\* identifiers that entered the list earliest are the ones removed and the
\* most recently added ones are retained.
C19_LedgerBounded ==
    /\ Len(seenJobs) <= SeenLimit
    /\ \A c \in DOMAIN checkLog :
          LET rec == checkLog[c]
              all == Range(rec.before) \cup IdsOf(rec.jobs)
              kept == Range(rec.after)
          IN  /\ Len(rec.after) = Cardinality(kept)
              /\ Cardinality(kept) = Min(SeenLimit, Cardinality(all))
              /\ kept \subseteq all
              /\ \A gone \in all \ kept : \A held \in kept :
                    rec.enteredAt[gone] < rec.enteredAt[held]

\* a check on a full list: an identifier that was in the list already and
\* came again with this check is removed, the one new with this check is
\* in the list
C19_Witness ==
    \E c \in DOMAIN checkLog :
        LET rec == checkLog[c]
        IN  /\ Len(rec.before) = SeenLimit
            /\ \E gone \in IdsOf(rec.jobs) \cap Range(rec.before) :
                  gone \notin Range(rec.after)
            /\ \E new \in IdsOf(rec.jobs) \ Range(rec.before) :
                  new \in Range(rec.after)

\* which listings meet which of the stored alerts: keyword, category and
\* salary.  The first alert (keyword Backend, any category, any salary) is
\* met by listings 1 and 2; the second (keyword engineer, remote or
\* remote-us, at least 50000) by listing 1 only.
MeetsAlert(alert, id) ==
    \/ alert.keywords = BackendForm.keywords /\ id \in {1, 2}
    \/ alert.keywords = RemoteEngineerForm.keywords /\ id = 1

C21_UniqueSavedIds ==
    \A i, j \in DOMAIN savedJobs :
        i # j => savedJobs[i].job_id # savedJobs[j].job_id

\* saveJob was called for a job_id that is in the list of two, and the list
\* still has two entries
C21_Witness ==
    /\ savedOp # <<>>
    /\ savedOp[1].op = "saveJob"
    /\ isSaved(savedOp[1].before, savedOp[1].arg)
    /\ savedOp[1].writes
    /\ Len(savedJobs) = 2

\* C28: toggleSave(id) for an id that is not saved either adds exactly one
\* entry whose job_id is id, after which isSaved(id) is true, or adds
\* nothing; it never adds an entry for another job_id, whatever the search
\* results and the last opened detail job are.
C28_ToggleAddsOnlyId ==
    (/\ savedOp # <<>>
     /\ savedOp[1].op = "toggleSave"
     /\ ~isSaved(savedOp[1].before, savedOp[1].arg))
        => \/ savedJobs = savedOp[1].before
           \/ /\ Len(savedJobs) = Len(savedOp[1].before) + 1
              /\ SubSeq(savedJobs, 1, Len(savedOp[1].before))
                    = savedOp[1].before
              /\ savedJobs[Len(savedJobs)].job_id = savedOp[1].arg
              /\ isSaved(savedJobs, savedOp[1].arg)

\* C30: saveJob for a saved job_id, and removeJob or updateNotes for a
\* job_id that is not saved, return false and leave the stored list as it
\* was; a saveJob that succeeds appends exactly one entry, with empty notes,
\* a removeJob that succeeds removes exactly the entry with that id, and an
\* updateNotes that succeeds changes only that entry's notes.  A call has
\* succeeded when it returned true and its write was stored.
C30_SavedOpsExact ==
    savedOp # <<>> =>
        LET rec == savedOp[1]
            old == rec.before
            had == isSaved(old, rec.arg)
            done == rec.ret = TRUE /\ rec.writes
        IN  /\ rec.op = "saveJob" =>
                /\ had => (rec.ret = FALSE /\ savedJobs = old)
                /\ done =>
                     /\ ~had
                     /\ Len(savedJobs) = Len(old) + 1
                     /\ SubSeq(savedJobs, 1, Len(old)) = old
                     /\ savedJobs[Len(savedJobs)].job_id = rec.arg
                     /\ savedJobs[Len(savedJobs)].notes = ""
            /\ rec.op = "removeJob" =>
                /\ ~had => (rec.ret = FALSE /\ savedJobs = old)
                /\ done =>
                     /\ Len(savedJobs) = Len(old) - 1
                     /\ \E k \in DOMAIN old :
                           /\ old[k].job_id = rec.arg
                           /\ savedJobs = SubSeq(old, 1, k - 1)
                                            \o SubSeq(old, k + 1, Len(old))
            /\ rec.op = "updateNotes" =>
                /\ ~had => (rec.ret = FALSE /\ savedJobs = old)
                /\ done =>
                     /\ Len(savedJobs) = Len(old)
                     /\ \A k \in DOMAIN old :
                           IF old[k].job_id = rec.arg
                           THEN savedJobs[k] =
                                   [old[k] EXCEPT !.notes = rec.notes]
                           ELSE savedJobs[k] = old[k]

\* updateNotes changed the notes of the second of two entries; the first
\* has notes of its own and was saved at another time
C30_Witness ==
    /\ savedOp # <<>>
    /\ savedOp[1].op = "updateNotes"
    /\ savedOp[1].ret = TRUE
    /\ savedOp[1].writes
    /\ Len(savedJobs) = 2
    /\ savedJobs[2].job_id = savedOp[1].arg
    /\ savedJobs[2].notes # savedOp[1].before[2].notes
    /\ savedJobs[1].notes # ""
    /\ savedJobs[1].saved_at # savedJobs[2].saved_at

\* C23: in scoreJobRelevance the title bucket is min(3, 1.5 x the number of
\* distinct keyword terms that are substrings of the title): repeating a
\* term in the keyword string does not raise the score.  (In half points:
\* min(6, 3 x that number).)
C23_TitleBucketDistinct ==
    \A k \in DOMAIN returned :
        (filterOptions.keywords # <<>> \/ filterOptions.themes # <<>>) =>
            LET terms == LongerThanOne(
                             splitWords(toLowerCase(filterOptions.keywords),
                                        <<>>))
                title == toLowerCase(OrEmpty(jobList[k].job_title))
                found == {t \in Range(terms) : includes(title, t)}
            IN  TitleBucket(jobList[k], filterOptions.keywords)
                    = Min(6, 3 * Cardinality(found))

\* C27: for every listing the classifier's in-a-home-region test (state code
\* in the configured set, or isNELocation) is true exactly when getJobNEState
\* returns a region code; hence a listing classified remote or remote-us has
\* no resolved region, a listing classified remote-ne-company has one, and
\* of the location-based listings only hybrid-ne and onsite-ne ones outside
\* the home regions pass a region filter that selects no region.
C27_HomeIffResolved ==
    \A k \in DOMAIN returned :
        LET job == jobList[k]
            category == returned[k].category
            home == \/ trim(toUpperCase(OrEmpty(job.job_state)))
                          \in NE_STATE_CODE_STRINGS
                    \/ isNELocation(job)
            region == getJobNEState(job)
            resolved == region \in NE_STATE_CODE_STRINGS
        IN  /\ home <=> resolved
            /\ category \in {"remote", "remote-us"} => ~resolved
            /\ category = "remote-ne-company" => resolved
            /\ (/\ category \in {"hybrid-ne", "onsite-ne", "remote-ne-company"}
                /\ StateFilterPasses(category, region, {}))
                  => (~home /\ category \in {"hybrid-ne", "onsite-ne"})

\* the identifiers a check reported as new, under any alert
ReportedNew(rec) ==
    UNION {IdsOf(rec.results.alertResults[r].newJobs) :
              r \in DOMAIN rec.results.alertResults}

\* C29: after checkAlerts(jobs) with no more listings than the
\* ledger holds, the id of every listing of jobs is in the seen ledger,
\* matched or not, alerts or none; so a listing that has been through one
\* check is never reported as new afterwards, by an alert created or edited
\* since.
C29_NeverNewAgain ==
    /\ \A c \in DOMAIN checkLog :
          IdsOf(checkLog[c].jobs) \subseteq Range(checkLog[c].after)
    /\ \A c, d \in DOMAIN checkLog :
          c < d => IdsOf(checkLog[c].jobs) \cap ReportedNew(checkLog[d]) = {}


\* log is what is left of held once zero or more entries were taken off its
\* front
IsTailOf(log, held) ==
    \E n \in 0..Len(held) : log = SubSeq(held, n + 1, Len(held))

\* C25: a request that ends with a missing credential, a limiter denial,
\* the offline check or a cache hit issues no network call and adds no
\* timestamp to the rate-limit log; a request that reaches the network adds
\* exactly one timestamp, its own, before the call, and the timestamp is
\* still in the log when the call has failed (only the limiter's pruning of
\* entries that left the window takes it out).
C25_StampOnlyForCalls ==
    \A j \in DOMAIN fetchLog :
       LET f == fetchLog[j]
           p == promises[j]
       IN  /\ f.via \in {"nokey", "limiter", "offline", "cache"} =>
                 /\ Settled(p) /\ p.via = f.via
                 /\ IsTailOf(f.left, f.held)
           /\ f.via = "network" =>
                 /\ p.via = "network"
                 /\ \E log \in {SubSeq(f.held, n + 1, Len(f.held)) :
                                    n \in 0..Len(f.held)} :
                       f.left = Append(log, f.at)
                 /\ f.at \in Range(requestLog)
                       \/ f.at < now - rateLimit.windowMs

\* three requests were made: one without a key, one that found the browser
\* offline, and one that went to the network and failed, whose timestamp is
\* in the log
C25_Witness ==
    /\ Len(fetchLog) = 3
    /\ \E i, j, k \in DOMAIN fetchLog :
          /\ fetchLog[i].via = "nokey"
          /\ fetchLog[j].via = "offline"
          /\ fetchLog[k].via = "network"
          /\ promises[k].status = "rejected"
          /\ fetchLog[k].at \in Range(requestLog)


\* C22: when a second search is started while a first is in flight, then once
\* both have settled the stored raw results, the filtered list and the
\* displayed state are those of the search started last, and they answer
\* currentKeywords, whichever search finished last.
C22_LatestSearchWins ==
    (Len(flights) >= 2 /\ \A f \in DOMAIN flights : flights[f].done) =>
       LET last == flights[Len(flights)]
       IN  /\ rawJobs = last.value
           /\ filteredJobs \in {<<>>, last.value}
           /\ uiState = IF filteredJobs = <<>> THEN "empty" ELSE "results"
           /\ \A k \in DOMAIN rawJobs : rawJobs[k].src[1] = currentKeywords

\* C24: the rate-limit log never holds more than maxRequests timestamps and
\* no more than maxRequests calls are recorded within a window, also when
\* the requests of a batch and of overlapping searches are started together:
\* each request of a batch finds the log exactly as the request before it
\* left it, its timestamp included, and a request reaches the network only
\* when its own check found room.
C24_LimiterHoldsUnderOverlap ==
    /\ Len(requestLog) <= rateLimit.maxRequests
    /\ InWindow(recorded, now) <= rateLimit.maxRequests
    /\ \A j \in 1..(Len(fetchLog) - 1) :
          fetchLog[j + 1].held = fetchLog[j].left
    /\ \A j \in DOMAIN fetchLog :
          fetchLog[j].via = "network" =>
             /\ Len(PruneLog(fetchLog[j].held, fetchLog[j].at))
                   < rateLimit.maxRequests
             /\ Len(fetchLog[j].left) <= rateLimit.maxRequests

\* two searches are in flight: the calls of the first are pending and fill
\* the window, and the requests of the second were denied by the limiter
C24_Witness ==
    /\ Len(flights) = 2
    /\ \A k \in DOMAIN flights[1].promises :
          flights[1].promises[k].status = "pending"
    /\ ~flights[2].done
    /\ Len(requestLog) = rateLimit.maxRequests
    /\ \E j \in DOMAIN fetchLog : fetchLog[j].via = "limiter"

\* C26: what searchAllCategories returns depends on the plan order and on
\* each query's response only, not on the order the queries of a batch
\* settle in: it is the responses' listings in plan order, each job_id once,
\* at the place and with the record of its first occurrence in that order.
C26_PlanOrderDecides ==
    \A f \in DOMAIN flights :
       flights[f].done =>
          LET fl == flights[f]
              all == ConcatAll([k \in DOMAIN fl.queries |->
                                   DataOf(fl.promises[k])])
              keep == {i \in DOMAIN all :
                         \A j \in 1..(i - 1) : all[j].job_id # all[i].job_id}
          IN  /\ Len(fl.value) = Cardinality(keep)
              /\ \A n \in DOMAIN fl.value :
                    \E i \in keep :
                       /\ Cardinality({j \in keep : j < i}) = n - 1
                       /\ fl.value[n] = all[i]

\* a search has ended whose second query settled before its first; both
\* returned listing 1, and the result holds the first query's record of it,
\* ahead of the second query's listing 2
C26_Witness ==
    \E f \in DOMAIN flights :
       LET fl == flights[f]
       IN  /\ fl.done
           /\ fl.order = <<2, 1>>
           /\ Len(fl.value) = 2
           /\ fl.value[1].job_id = 1 /\ fl.value[1].src = fl.queries[1].query
           /\ fl.value[2].job_id = 2 /\ fl.value[2].src = fl.queries[2].query

====
